---- MODULE Spec2Model ----
(***************************************************************************)
(* Memory Cortex: the write-path dedup/merge engine, the embedding gateway *)
(* and the hybrid query engine of api-server/src/tools.ts, over the tables *)
(* of the database schema.  Every exported operation of tools.ts is one    *)
(* atomic action (requests are run one after the other in the sequential   *)
(* specifications).                                                        *)
(*                                                                         *)
(* Text is a sequence of one-character strings.  pg_trgm's similarity(),   *)
(* PostgreSQL's ILIKE and the pgvector cosine distance are computed as the *)
(* database computes them, on a small catalogue of texts.                  *)
(***************************************************************************)
EXTENDS Integers, Sequences, FiniteSets, TLC

VARIABLES
    projects,            \* table projects: set of project ids
    sessions,            \* table sessions
    snapshots,           \* table snapshots
    todos,               \* table todos
    notes,               \* table notes
    error_patterns,      \* table error_patterns
    instructions,        \* table instructions
    project_brief,       \* table project_brief
    memory_embeddings,   \* table memory_embeddings
    embeddingAvailable,  \* embeddings.ts: let embeddingAvailable: boolean | null
    pgTrgm,              \* whether the similarity() queries succeed (pg_trgm installed)
    now,                 \* the database clock, now()
    nextId,              \* source of fresh UUIDs
    history,             \* the requests served so far, each with what it returned
    inflight             \* the calls served statement by statement, each with the
                         \* statement it has reached and its local variables

tables == <<projects, sessions, snapshots, todos, notes, error_patterns,
            instructions, project_brief, memory_embeddings>>
vars == <<projects, sessions, snapshots, todos, notes, error_patterns,
          instructions, project_brief, memory_embeddings,
          embeddingAvailable, pgTrgm, now, nextId, history, inflight>>

NULL == "NULL"

(***************************************************************************)
(* Characters and strings.                                                 *)
(***************************************************************************)
UpperCs == <<"A","B","C","D","E","F","G","H","I","J","K","L","M",
             "N","O","P","Q","R","S","T","U","V","W","X","Y","Z">>
LowerCs == <<"a","b","c","d","e","f","g","h","i","j","k","l","m",
             "n","o","p","q","r","s","t","u","v","w","x","y","z">>
Digits == {"0","1","2","3","4","5","6","7","8","9"}

Range(s) == {s[i] : i \in DOMAIN s}

\* lower(c): the character folded to lower case (ILIKE and pg_trgm fold case)
ToLower(c) ==
    IF \E i \in DOMAIN UpperCs : UpperCs[i] = c
    THEN LowerCs[CHOOSE i \in DOMAIN UpperCs : UpperCs[i] = c]
    ELSE c

LowerStr(s) == [i \in DOMAIN s |-> ToLower(s[i])]

IsAlnum(c) == c \in Range(UpperCs) \cup Range(LowerCs) \cup Digits

IsSpace(c) == c = " "

\* String.prototype.trim()
RECURSIVE TrimLeft(_)
TrimLeft(s) == IF s # <<>> /\ IsSpace(Head(s)) THEN TrimLeft(Tail(s)) ELSE s

RECURSIVE TrimRight(_)
TrimRight(s) ==
    IF s # <<>> /\ IsSpace(s[Len(s)]) THEN TrimRight(SubSeq(s, 1, Len(s) - 1)) ELSE s

Trim(s) == TrimRight(TrimLeft(s))

(***************************************************************************)
(* The text catalogue the requests draw from.                              *)
(***************************************************************************)
TxtJwt   == <<"U","s","e"," ","J","W","T">>           \* "Use JWT"
TxtJwt2  == <<"u","s","e"," ","j","w","t",".">>       \* "use jwt."  (same trigrams)
TxtPool  == <<"p","o","o","l">>                       \* "pool"
TxtPunct == <<"?","?">>                               \* "??"  (no trigram at all)
TxtEmpty == <<>>                                      \* ""
TxtKey   == <<"j","w","t">>                           \* "jwt"

Catalogue == {TxtJwt, TxtJwt2, TxtPool, TxtPunct, TxtEmpty}

(***************************************************************************)
(* pg_trgm: similarity(a, b).  A text is folded to lower case and cut into *)
(* words (maximal runs of alphanumeric characters); each word is padded    *)
(* with two blanks in front and one behind and yields its three-character  *)
(* windows.  similarity is |A \cap B| / |A \cup B| over the two trigram    *)
(* sets, and 0 when either set is empty.                                   *)
(***************************************************************************)
RECURSIVE WordsOf(_, _)
WordsOf(s, cur) ==
    IF s = <<>> THEN (IF cur = <<>> THEN {} ELSE {cur})
    ELSE IF IsAlnum(Head(s)) THEN WordsOf(Tail(s), Append(cur, ToLower(Head(s))))
    ELSE (IF cur = <<>> THEN {} ELSE {cur}) \cup WordsOf(Tail(s), <<>>)

WordTrigrams(w) ==
    LET padded == <<" ", " ">> \o w \o <<" ">>
    IN  {SubSeq(padded, i, i + 2) : i \in 1..(Len(padded) - 2)}

Trigrams(s) == UNION {WordTrigrams(w) : w \in WordsOf(s, <<>>)}

\* the trigram sets of the catalogue, computed once
CatalogueTrigrams == [s \in Catalogue |-> Trigrams(s)]

TrigramsOf(s) == IF s \in Catalogue THEN CatalogueTrigrams[s] ELSE Trigrams(s)

\* similarity(a, b) as the fraction num/den (0/1 when a trigram set is empty)
similarity(a, b) ==
    LET ta == TrigramsOf(a)
        tb == TrigramsOf(b)
    IN  IF ta = {} \/ tb = {} THEN [num |-> 0, den |-> 1]
        ELSE [num |-> Cardinality(ta \cap tb), den |-> Cardinality(ta \cup tb)]

\* similarity(a, b) > tenths / 10
SimilarityExceeds(a, b, tenths) ==
    LET s == similarity(a, b) IN 10 * s.num > tenths * s.den

\* similarity(a, c) >= similarity(b, c): a sorts no later than b in
\* ORDER BY similarity(x, c) DESC
SimilarityAtLeast(a, b, c) ==
    LET sa == similarity(a, c)
        sb == similarity(b, c)
    IN  sa.num * sb.den >= sb.num * sa.den

(***************************************************************************)
(* db.ts: escapeIlike, and PostgreSQL's ILIKE with the default escape      *)
(* character (backslash).                                                  *)
(***************************************************************************)
BackSlash == "\\"

\* faulty variant: the query goes into the pattern as it is
escapeIlikeNothing(s) == s

\* s.replace(/[%_\\]/g, "\\$&")
RECURSIVE escapeIlike(_)
escapeIlike(s) ==
    IF s = <<>> THEN <<>>
    ELSE IF Head(s) \in {"%", "_", BackSlash}
         THEN <<BackSlash, Head(s)>> \o escapeIlike(Tail(s))
         ELSE <<Head(s)>> \o escapeIlike(Tail(s))

\* text LIKE pattern: % matches any run, _ any one character, a backslash
\* makes the next pattern character literal
RECURSIVE LikeMatch(_, _)
LikeMatch(text, pat) ==
    IF pat = <<>> THEN text = <<>>
    ELSE IF Head(pat) = "%"
         THEN \E k \in 0..Len(text) : LikeMatch(SubSeq(text, k + 1, Len(text)), Tail(pat))
    ELSE IF Head(pat) = "_"
         THEN text # <<>> /\ LikeMatch(Tail(text), Tail(pat))
    ELSE IF Head(pat) = BackSlash /\ Len(pat) >= 2
         THEN text # <<>> /\ Head(text) = pat[2]
              /\ LikeMatch(Tail(text), SubSeq(pat, 3, Len(pat)))
    ELSE text # <<>> /\ Head(text) = Head(pat) /\ LikeMatch(Tail(text), Tail(pat))

\* text ILIKE pattern
ILike(text, pat) == LikeMatch(LowerStr(text), LowerStr(pat))

\* the keyword sub-query's pattern: `%${escaped}%`
KeywordPattern(query) == <<"%">> \o escapeIlike(query) \o <<"%">>

(***************************************************************************)
(* The embedding service: text -> vector, and pgvector's cosine distance.  *)
(* The remote model is a deterministic function of the text; its vectors   *)
(* here have two positive integer components.                              *)
(***************************************************************************)
Vec(text) ==
    LET lo == LowerStr(text)
        firstHalf == {i \in DOMAIN lo : \E k \in 1..13 : LowerCs[k] = lo[i]}
    IN  <<1 + Cardinality(firstHalf), 1 + Len(lo) - Cardinality(firstHalf)>>

Dot(a, b) == a[1] * b[1] + a[2] * b[2]

\* (a <=> q) <= (b <=> q): a sorts no later than b in ORDER BY embedding <=> q
CosineAtMost(a, b, q) ==
    Dot(a, q) * Dot(a, q) * Dot(b, b) >= Dot(b, q) * Dot(b, q) * Dot(a, a)

Projects == {"p1", "p2"}
NoId == 0                                             \* a UUID no row carries

\* JavaScript truthiness of an optional string, and x || null, x || ""
Truthy(x) == x # NULL /\ x # <<>>
\* equality of two column values, either of which may be NULL
SameValue(a, b) == IF a = NULL \/ b = NULL THEN a = NULL /\ b = NULL ELSE a = b
OrNull(x) == IF Truthy(x) THEN x ELSE NULL
OrEmpty(x) == IF Truthy(x) THEN x ELSE <<>>

\* the request just served
last == IF history = <<>> THEN [op |-> "init"] ELSE history[Len(history)]

\* serve a request: it takes one tick of the clock and is entered in the history.
\* An entry holds the request, the fields of the returned object that matter, and
\* vectors (whether embed returned vectors); deduplicated is FALSE where the
\* returned object has no such field (the insert branches).
Served(entry) ==
    /\ history' = Append(history, entry)
    /\ now' = now + 1
    /\ inflight' = inflight

(***************************************************************************)
(* embeddings.ts: the Embedding Gateway.  probe is what GET /health does,  *)
(* batch what POST /embed does: "ok" (a success response with vectors),    *)
(* "notok" (a non-success status), "throw" (fetch rejects: network error), *)
(* "timeout" (the abort signal fires) or "badbody" (res.json() rejects).   *)
(***************************************************************************)
ProbeOutcomes == {"ok", "notok", "throw", "timeout"}
BatchOutcomes == {"ok", "notok", "throw", "timeout", "badbody"}

\* checkEmbeddingService(): the value it stores in the flag and returns
\* (try: res.ok; catch: false)
checkEmbeddingService(probe) == IF probe = "ok" THEN "true" ELSE "false"

\* the try block of embed: "vectors" (return data.embeddings), "null"
\* (return null) or "thrown" (an exception leaves the block)
embedTry(batch) ==
    CASE batch = "ok" -> "vectors"
      [] batch = "notok" -> "null"
      [] OTHER -> "thrown"

\* faulty variant: no catch clause, the exception leaves embed
embedNoCatch(tried, flag) == [result |-> tried, flag |-> flag]

\* catch { embeddingAvailable = false; return null; }
embedCatch(tried, flag) ==
    IF tried = "thrown" THEN [result |-> "null", flag |-> "false"]
    ELSE [result |-> tried, flag |-> flag]

\* faulty variant: a flag that is false is final, the service is not probed again
embedSticky(flag, n, probe, batch) ==
    IF n = 0 THEN [vectors |-> TRUE, raised |-> FALSE, flag |-> flag,
                   probed |-> FALSE, batched |-> FALSE]
    ELSE LET probed == flag = "null"
             f1 == IF probed THEN checkEmbeddingService(probe) ELSE flag
         IN  IF f1 # "true"
             THEN [vectors |-> FALSE, raised |-> FALSE, flag |-> f1,
                   probed |-> probed, batched |-> FALSE]
             ELSE LET done == embedCatch(embedTry(batch), f1)
                  IN  [vectors |-> done.result = "vectors",
                       raised |-> done.result = "thrown", flag |-> done.flag,
                       probed |-> probed, batched |-> TRUE]

\* faulty variant: the batch request is sent whatever the probe answered
embedIgnoresProbe(flag, n, probe, batch) ==
    IF n = 0 THEN [vectors |-> TRUE, raised |-> FALSE, flag |-> flag,
                   probed |-> FALSE, batched |-> FALSE]
    ELSE LET probed == flag \in {"null", "false"}
             f1 == IF probed THEN checkEmbeddingService(probe) ELSE flag
             done == embedCatch(embedTry(batch), f1)
         IN  [vectors |-> done.result = "vectors",
              raised |-> done.result = "thrown", flag |-> done.flag,
              probed |-> probed, batched |-> TRUE]

\* embed(texts) for n = texts.length, started with the flag at `flag`:
\* whether vectors are returned, whether an exception reaches the caller, the
\* flag afterwards, and the calls made
embed(flag, n, probe, batch) ==
    IF n = 0 THEN [vectors |-> TRUE, raised |-> FALSE, flag |-> flag,
                   probed |-> FALSE, batched |-> FALSE]
    ELSE LET probed == flag \in {"null", "false"}
             f1 == IF probed THEN checkEmbeddingService(probe) ELSE flag
         IN  IF f1 # "true"
             THEN [vectors |-> FALSE, raised |-> FALSE, flag |-> f1,
                   probed |-> probed, batched |-> FALSE]
             ELSE LET done == embedCatch(embedTry(batch), f1)
                  IN  [vectors |-> done.result = "vectors",
                       raised |-> done.result = "thrown", flag |-> done.flag,
                       probed |-> probed, batched |-> TRUE]

\* what one embed call of n texts can return in the current state
EmbedResults(n) ==
    {embed(embeddingAvailable, n, probe, batch) :
        probe \in ProbeOutcomes, batch \in BatchOutcomes}

\* the result of a request that does not call embed
NoEmbed == [vectors |-> FALSE, raised |-> FALSE, flag |-> embeddingAvailable,
            probed |-> FALSE, batched |-> FALSE]

(***************************************************************************)
(* tools.ts: dedup helpers.  Each returns the set of rows the query may    *)
(* return as rows[0] (ORDER BY ... LIMIT 1 picks any row of maximal        *)
(* similarity); the empty set is the null result.  trgm = FALSE is the     *)
(* similarity query failing, which runs the exact-match query instead.     *)
(***************************************************************************)
NoteThreshold == 8          \* similarity(content, $3) > 0.8
InstructionThreshold == 8   \* similarity(content, $2) > 0.8
ErrorThreshold == 7         \* similarity(error_message, $2) > 0.7

\* the compared column of each candidate row
ContentOf(cand) == [r \in cand |-> r.content]
ErrorMessageOf(cand) == [r \in cand |-> r.error_message]

\* the rows of maximal similarity to text; field maps each candidate row to
\* its compared column
MostSimilar(field, text) ==
    {r \in DOMAIN field :
       \A o \in DOMAIN field : SimilarityAtLeast(field[r], field[o], text)}

\* faulty variant: the similarity query asks for similarity > 1.0 (never true)
findSimilarNoteTooStrict(projectId, content, category, trgm) ==
    IF trgm
    THEN LET cand == {r \in notes : /\ r.project_id = projectId
                                    /\ r.category = category
                                    /\ SimilarityExceeds(r.content, content, 10)}
         IN  {r.id : r \in MostSimilar(ContentOf(cand), content)}
    ELSE {r.id : r \in {x \in notes : /\ x.project_id = projectId
                                      /\ x.category = category
                                      /\ x.content = content}}

\* faulty variant: the exact-match query does not compare the category
findSimilarNoteAnyCategory(projectId, content, category, trgm) ==
    IF trgm
    THEN LET cand == {r \in notes : /\ r.project_id = projectId
                                    /\ r.category = category
                                    /\ SimilarityExceeds(r.content, content, NoteThreshold)}
         IN  {r.id : r \in MostSimilar(ContentOf(cand), content)}
    ELSE {r.id : r \in {x \in notes : /\ x.project_id = projectId
                                      /\ x.content = content}}

\* faulty variant: the similarity query has no ORDER BY, any row over the
\* threshold may come first
findSimilarNoteUnordered(projectId, content, category, trgm) ==
    IF trgm
    THEN {r.id : r \in {x \in notes : /\ x.project_id = projectId
                                       /\ x.category = category
                                       /\ SimilarityExceeds(x.content, content,
                                                            NoteThreshold)}}
    ELSE {r.id : r \in {x \in notes : /\ x.project_id = projectId
                                      /\ x.category = category
                                      /\ x.content = content}}

findSimilarNote(projectId, content, category, trgm) ==
    IF trgm
    THEN LET cand == {r \in notes : /\ r.project_id = projectId
                                    /\ r.category = category
                                    /\ SimilarityExceeds(r.content, content, NoteThreshold)}
         IN  {r.id : r \in MostSimilar(ContentOf(cand), content)}
    ELSE {r.id : r \in {x \in notes : /\ x.project_id = projectId
                                      /\ x.category = category
                                      /\ x.content = content}}

findSimilarInstruction(projectId, content, trgm) ==
    IF trgm
    THEN LET cand == {r \in instructions :
                        /\ r.project_id = projectId
                        /\ r.active
                        /\ SimilarityExceeds(r.content, content, InstructionThreshold)}
         IN  {r.id : r \in MostSimilar(ContentOf(cand), content)}
    ELSE {r.id : r \in {x \in instructions : /\ x.project_id = projectId
                                             /\ x.active
                                             /\ x.content = content}}

\* returns rows (id, attempted_fixes, occurrence_count), not ids
findSimilarErrorPattern(projectId, errorMessage, trgm) ==
    IF trgm
    THEN LET cand == {r \in error_patterns :
                        /\ r.project_id = projectId
                        /\ SimilarityExceeds(r.error_message, errorMessage, ErrorThreshold)}
         IN  MostSimilar(ErrorMessageOf(cand), errorMessage)
    ELSE {x \in error_patterns : /\ x.project_id = projectId
                                 /\ x.error_message = errorMessage}

(***************************************************************************)
(* Foreign keys of the schema.  An insert whose reference matches no row   *)
(* fails in the database and writes nothing: the action is not enabled.    *)
(***************************************************************************)
\* A reference column (snapshot_id, session_id) holds the set of the ids it
\* refers to: no id (NULL) or one.
NoRef == {}
SnapshotRef(ref) == \A id \in ref : \E r \in snapshots : r.id = id
SessionRef(ref) == \A id \in ref : \E r \in sessions : r.id = id

\* a memory_embeddings row
EmbeddingRow(id, projectId, sourceType, sourceId, contentType, text, vector, t, tags) ==
    [id |-> id, project_id |-> projectId, source_type |-> sourceType,
     source_id |-> sourceId, content_type |-> contentType, content_text |-> text,
     embedding |-> vector, created_at |-> t, tags |-> tags]

(***************************************************************************)
(* tools.ts: projects.                                                     *)
(***************************************************************************)
registerProject(projectId, name) ==
    /\ projects' =
         IF \E r \in projects : r.id = projectId
         THEN {IF r.id = projectId
               THEN [r EXCEPT !.name = IF OrNull(name) = NULL THEN r.name ELSE name,
                              !.last_accessed_at = now + 1]
               ELSE r : r \in projects}
         ELSE projects \cup {[id |-> projectId, name |-> OrNull(name),
                              last_accessed_at |-> now + 1]}
    /\ Served([op |-> "registerProject", project |-> projectId])
    /\ UNCHANGED <<sessions, snapshots, todos, notes, error_patterns, instructions,
                   project_brief, memory_embeddings, embeddingAvailable, pgTrgm, nextId>>

(***************************************************************************)
(* tools.ts: snapshots.  The trigger snapshots_session_count counts the    *)
(* snapshot in its session.                                                *)
(***************************************************************************)
createSnapshot(projectId, params) ==
    LET id == nextId
        t == now + 1
        texts == (IF Truthy(params.summary) THEN <<params.summary>> ELSE <<>>)
                 \o (IF Truthy(params.architecture_notes)
                     THEN <<params.architecture_notes>> ELSE <<>>)
        types == (IF Truthy(params.summary) THEN <<"summary">> ELSE <<>>)
                 \o (IF Truthy(params.architecture_notes) THEN <<"architecture">> ELSE <<>>)
    IN  \E g \in (IF Len(texts) > 0 THEN EmbedResults(Len(texts)) ELSE {NoEmbed}) :
        /\ SessionRef(params.session_id)
        /\ snapshots' = snapshots \cup
             {[id |-> id, project_id |-> projectId, summary |-> params.summary,
               architecture_notes |-> OrNull(params.architecture_notes),
               tags |-> params.tags, session_id |-> params.session_id,
               created_at |-> t]}
        /\ sessions' = {IF r.id \in params.session_id
                        THEN [r EXCEPT !.snapshot_count = @ + 1] ELSE r : r \in sessions}
        /\ memory_embeddings' =
             IF Len(texts) > 0 /\ g.vectors
             THEN memory_embeddings \cup
                  {EmbeddingRow(id + i, projectId, "snapshot", id, types[i], texts[i],
                                Vec(texts[i]), t, params.tags) : i \in 1..Len(texts)}
             ELSE memory_embeddings
        /\ nextId' = nextId + 3
        /\ embeddingAvailable' = g.flag
        /\ Served([op |-> "createSnapshot", project |-> projectId, params |-> params,
                   id |-> id, vectors |-> g.vectors])
        /\ UNCHANGED <<projects, todos, notes, error_patterns, instructions,
                       project_brief, pgTrgm>>

\* faulty variant: the new text is stored in a further row and the old row stays
UpdateEmbeddingKeepsOld(sourceType, sourceId, text, t) ==
    memory_embeddings \cup
    {[e EXCEPT !.id = nextId, !.content_text = text, !.embedding = Vec(text),
               !.created_at = t] :
       e \in {x \in memory_embeddings :
                x.source_type = sourceType /\ x.source_id = sourceId}}

\* UPDATE memory_embeddings SET content_text = $1, embedding = $2::vector,
\* created_at = now() WHERE source_type = ... AND source_id = $3
UpdateEmbedding(sourceType, sourceId, text, t) ==
    {IF e.source_type = sourceType /\ e.source_id = sourceId
     THEN [e EXCEPT !.content_text = text, !.embedding = Vec(text), !.created_at = t]
     ELSE e : e \in memory_embeddings}

(***************************************************************************)
(* tools.ts: todos.                                                        *)
(***************************************************************************)
TaskPrefix == <<"T","a","s","k",":"," ">>

\* completed_at TIMESTAMPTZ: NULL, or a set of one time
NoTime == {}

addTodo(projectId, params) ==
    LET id == nextId
        t == now + 1
        status == IF params.status = NULL THEN "todo" ELSE params.status
    IN  \E g \in EmbedResults(1) :
        /\ SnapshotRef(params.snapshot_id)
        /\ todos' = todos \cup
             {[id |-> id, project_id |-> projectId, title |-> params.title,
               description |-> OrNull(params.description), status |-> status,
               snapshot_id |-> params.snapshot_id, tags |-> params.tags,
               created_at |-> t, completed_at |-> NoTime]}
        /\ memory_embeddings' =
             IF g.vectors
             THEN memory_embeddings \cup
                  {EmbeddingRow(id + 1, projectId, "todo", id, "task",
                                params.title \o <<":", " ">> \o OrEmpty(params.description),
                                Vec(TaskPrefix \o params.title \o <<".", " ">>
                                    \o OrEmpty(params.description)),
                                t, params.tags)}
             ELSE memory_embeddings
        /\ nextId' = nextId + 2
        /\ embeddingAvailable' = g.flag
        /\ Served([op |-> "addTodo", project |-> projectId, params |-> params,
                   id |-> id, vectors |-> g.vectors])
        /\ UNCHANGED <<projects, sessions, snapshots, notes, error_patterns,
                       instructions, project_brief, pgTrgm>>

\* the fields of a PATCH that are not undefined (title and status, of the allowed ones)
GivenFields(fields) == {k \in {"title", "status"} : fields[k] # NULL}

updateTodo(projectId, id, fields) ==
    IF GivenFields(fields) = {}
    THEN /\ Served([op |-> "updateTodo", project |-> projectId, id |-> id,
                    fields |-> fields, message |-> "No fields to update"])
         /\ UNCHANGED <<tables, embeddingAvailable, pgTrgm, nextId>>
    ELSE /\ todos' = {IF r.id = id /\ r.project_id = projectId
                      THEN [r EXCEPT !.title = IF fields.title # NULL
                                               THEN fields.title ELSE @,
                                     !.status = IF fields.status # NULL
                                                THEN fields.status ELSE @]
                      ELSE r : r \in todos}
         /\ Served([op |-> "updateTodo", project |-> projectId, id |-> id,
                    fields |-> fields, message |-> "Todo updated"])
         /\ UNCHANGED <<projects, sessions, snapshots, notes, error_patterns,
                        instructions, project_brief, memory_embeddings,
                        embeddingAvailable, pgTrgm, nextId>>

completeTodo(projectId, id) ==
    /\ todos' = {IF r.id = id /\ r.project_id = projectId
                 THEN [r EXCEPT !.status = "done", !.completed_at = {now + 1}]
                 ELSE r : r \in todos}
    /\ Served([op |-> "completeTodo", project |-> projectId, id |-> id,
               message |-> "Todo completed"])
    /\ UNCHANGED <<projects, sessions, snapshots, notes, error_patterns,
                   instructions, project_brief, memory_embeddings,
                   embeddingAvailable, pgTrgm, nextId>>

deleteTodo(projectId, id) ==
    /\ memory_embeddings' =
         {e \in memory_embeddings :
            ~(e.source_type = "todo" /\ e.source_id = id /\ e.project_id = projectId)}
    /\ todos' = {r \in todos : ~(r.id = id /\ r.project_id = projectId)}
    /\ Served([op |-> "deleteTodo", project |-> projectId, id |-> id,
               message |-> "Todo deleted"])
    /\ UNCHANGED <<projects, sessions, snapshots, notes, error_patterns, instructions,
                   project_brief, embeddingAvailable, pgTrgm, nextId>>

(***************************************************************************)
(* tools.ts: notes, with dedup.                                            *)
(***************************************************************************)
NoteContentType(category) ==
    IF category = "decision" THEN "decision"
    ELSE IF category = "debug" THEN "debug" ELSE "note"

addNote(projectId, params, trgm) ==
    LET category == IF params.category = NULL THEN "general" ELSE params.category
        found == findSimilarNote(projectId, params.content, category, trgm)
        t == now + 1
    IN  \E g \in EmbedResults(1) :
        /\ IF found # {}
           THEN \E existingId \in found :
                /\ notes' = {IF r.id = existingId
                             THEN [r EXCEPT !.content = params.content,
                                            !.tags = params.tags,
                                            !.created_at = t]
                             ELSE r : r \in notes}
                /\ memory_embeddings' =
                     IF g.vectors
                     THEN UpdateEmbedding("note", existingId, params.content, t)
                     ELSE memory_embeddings
                /\ nextId' = nextId
                /\ Served([op |-> "addNote", project |-> projectId, params |-> params,
                           id |-> existingId, category |-> category,
                           deduplicated |-> TRUE, vectors |-> g.vectors,
                           fuzzy |-> trgm])
           ELSE /\ SnapshotRef(params.snapshot_id)
                /\ notes' = notes \cup
                     {[id |-> nextId, project_id |-> projectId, content |-> params.content,
                       category |-> category, tags |-> params.tags,
                       related_files |-> params.related_files,
                       snapshot_id |-> params.snapshot_id, created_at |-> t]}
                /\ memory_embeddings' =
                     IF g.vectors
                     THEN memory_embeddings \cup
                          {EmbeddingRow(nextId + 1, projectId, "note", nextId,
                                        NoteContentType(category), params.content,
                                        Vec(params.content), t, params.tags)}
                     ELSE memory_embeddings
                /\ nextId' = nextId + 2
                /\ Served([op |-> "addNote", project |-> projectId, params |-> params,
                           id |-> nextId, category |-> category,
                           deduplicated |-> FALSE, vectors |-> g.vectors,
                           fuzzy |-> trgm])
        /\ embeddingAvailable' = g.flag
        /\ UNCHANGED <<projects, sessions, snapshots, todos, error_patterns,
                       instructions, project_brief, pgTrgm>>

\* faulty variant: only the notes row is deleted
deleteNoteRowOnly(projectId, id) ==
    LET gone == {r \in notes : r.id = id /\ r.project_id = projectId}
    IN  /\ notes' = notes \ gone
        /\ Served([op |-> "deleteNote", project |-> projectId, id |-> id,
                   message |-> IF gone = {} THEN "Note not found" ELSE "Note deleted"])
        /\ UNCHANGED <<projects, sessions, snapshots, todos, error_patterns, instructions,
                       project_brief, memory_embeddings, embeddingAvailable, pgTrgm,
                       nextId>>

deleteNote(projectId, id) ==
    LET gone == {r \in notes : r.id = id /\ r.project_id = projectId}
    IN  /\ memory_embeddings' =
             {e \in memory_embeddings :
                ~(e.source_type = "note" /\ e.source_id = id /\ e.project_id = projectId)}
        /\ notes' = notes \ gone
        /\ Served([op |-> "deleteNote", project |-> projectId, id |-> id,
                   message |-> IF gone = {} THEN "Note not found" ELSE "Note deleted"])
        /\ UNCHANGED <<projects, sessions, snapshots, todos, error_patterns, instructions,
                       project_brief, embeddingAvailable, pgTrgm, nextId>>

(***************************************************************************)
(* tools.ts: error patterns, with dedup.  attempted_fixes is kept as the   *)
(* set of its elements.                                                    *)
(***************************************************************************)
ErrorPrefix == <<"E","r","r","o","r",":"," ">>
CausePrefix == <<"."," ","C","a","u","s","e",":"," ">>
FixPrefix == <<"."," ","F","i","x",":"," ">>
Unknown == <<"u","n","k","n","o","w","n">>

\* `Error: ${error_message}. Cause: ${root_cause || "unknown"}. Fix: ${resolution}`
MergedErrorText(params) ==
    ErrorPrefix \o params.error_message \o CausePrefix
    \o (IF Truthy(params.root_cause) THEN params.root_cause ELSE Unknown)
    \o FixPrefix \o params.resolution

\* `Error: ${error_message}. ${root_cause || ""} ${resolution || ""}`.trim()
NewErrorText(params) ==
    Trim(ErrorPrefix \o params.error_message \o <<".", " ">>
         \o OrEmpty(params.root_cause) \o <<" ">> \o OrEmpty(params.resolution))

\* faulty variant: the column is overwritten with the parameter
CoalesceOverwrite(new, old) == new

\* COALESCE(new, old)
Coalesce(new, old) == IF new # NULL THEN new ELSE old

\* faulty variant: the fixes of the call replace the stored ones
mergedFixesReplaced(existing, params) == params.attempted_fixes

\* [...new Set([...(existing.attempted_fixes || []), ...(params.attempted_fixes || [])])]
mergedFixes(existing, params) == existing.attempted_fixes \cup params.attempted_fixes

logErrorPattern(projectId, params, trgm) ==
    LET found == findSimilarErrorPattern(projectId, params.error_message, trgm)
        t == now + 1
    IN  IF found # {}
        THEN \E existing \in found :
             LET text == MergedErrorText(params)
             IN  \E g \in (IF Truthy(params.resolution) THEN EmbedResults(1) ELSE {NoEmbed}) :
                 /\ error_patterns' =
                      {IF r.id = existing.id
                       THEN [r EXCEPT !.occurrence_count = @ + 1,
                                      !.last_seen_at = t,
                                      !.attempted_fixes = mergedFixes(existing, params),
                                      !.root_cause = Coalesce(OrNull(params.root_cause), @),
                                      !.resolution = Coalesce(OrNull(params.resolution), @),
                                      !.file_paths = Coalesce(params.file_paths, @)]
                       ELSE r : r \in error_patterns}
                 /\ memory_embeddings' =
                      IF Truthy(params.resolution) /\ g.vectors
                      THEN UpdateEmbedding("error_pattern", existing.id, text, t)
                      ELSE memory_embeddings
                 /\ nextId' = nextId
                 /\ embeddingAvailable' = g.flag
                 /\ Served([op |-> "logErrorPattern", project |-> projectId,
                            params |-> params, id |-> existing.id,
                            occurrence_count |-> existing.occurrence_count + 1,
                            deduplicated |-> TRUE, vectors |-> g.vectors,
                            fuzzy |-> trgm])
                 /\ UNCHANGED <<projects, sessions, snapshots, todos, notes,
                                instructions, project_brief, pgTrgm>>
        ELSE \E g \in EmbedResults(1) :
             /\ error_patterns' = error_patterns \cup
                  {[id |-> nextId, project_id |-> projectId,
                    error_message |-> params.error_message,
                    attempted_fixes |-> params.attempted_fixes,
                    root_cause |-> OrNull(params.root_cause),
                    resolution |-> OrNull(params.resolution),
                    file_paths |-> IF params.file_paths = NULL THEN {} ELSE params.file_paths,
                    tags |-> params.tags, occurrence_count |-> 1,
                    last_seen_at |-> t, created_at |-> t]}
             /\ memory_embeddings' =
                  IF g.vectors
                  THEN memory_embeddings \cup
                       {EmbeddingRow(nextId + 1, projectId, "error_pattern", nextId, "error",
                                     NewErrorText(params), Vec(NewErrorText(params)), t,
                                     params.tags)}
                  ELSE memory_embeddings
             /\ nextId' = nextId + 2
             /\ embeddingAvailable' = g.flag
             /\ Served([op |-> "logErrorPattern", project |-> projectId,
                        params |-> params, id |-> nextId,
                        deduplicated |-> FALSE, vectors |-> g.vectors,
                        fuzzy |-> trgm])
             /\ UNCHANGED <<projects, sessions, snapshots, todos, notes,
                            instructions, project_brief, pgTrgm>>

(***************************************************************************)
(* tools.ts: instructions, with dedup (existing wins).                     *)
(***************************************************************************)
\* faulty variant: the duplicate overwrites the existing instruction and its
\* embedding, as the merge of a note does
instructionMerged(projectId, params, existingId, trgm) ==
    \E g \in EmbedResults(1) :
        /\ instructions' =
             {IF r.id = existingId
              THEN [r EXCEPT !.content = params.content, !.tags = params.tags,
                             !.created_at = now + 1]
              ELSE r : r \in instructions}
        /\ memory_embeddings' =
             IF g.vectors
             THEN {IF e.source_type = "instruction" /\ e.source_id = existingId
                   THEN [e EXCEPT !.content_text = params.content,
                                  !.embedding = Vec(params.content)]
                   ELSE e : e \in memory_embeddings}
             ELSE memory_embeddings
        /\ embeddingAvailable' = g.flag
        /\ Served([op |-> "addInstruction", project |-> projectId, params |-> params,
                   id |-> existingId, deduplicated |-> TRUE, vectors |-> g.vectors,
                   called |-> g.probed \/ g.batched, fuzzy |-> trgm])
        /\ UNCHANGED <<projects, sessions, snapshots, todos, notes, error_patterns,
                       project_brief, pgTrgm, nextId>>

\* if (existingId) return { id: existingId, ..., deduplicated: true }
instructionExists(projectId, params, existingId, trgm) ==
    /\ Served([op |-> "addInstruction", project |-> projectId, params |-> params,
               id |-> existingId, deduplicated |-> TRUE, vectors |-> FALSE,
               called |-> FALSE, fuzzy |-> trgm])
    /\ UNCHANGED <<tables, embeddingAvailable, pgTrgm, nextId>>

\* called: whether the request reached the embedding service
addInstruction(projectId, params, trgm) ==
    LET category == IF params.category = NULL THEN "general" ELSE params.category
        found == findSimilarInstruction(projectId, params.content, trgm)
        t == now + 1
    IN  IF found # {}
        THEN \E existingId \in found :
                instructionExists(projectId, params, existingId, trgm)
        ELSE \E g \in EmbedResults(1) :
             /\ instructions' = instructions \cup
                  {[id |-> nextId, project_id |-> projectId, content |-> params.content,
                    category |-> category, active |-> TRUE, priority |-> params.priority,
                    tags |-> params.tags, created_at |-> t]}
             /\ memory_embeddings' =
                  IF g.vectors
                  THEN memory_embeddings \cup
                       {EmbeddingRow(nextId + 1, projectId, "instruction", nextId,
                                     "instruction", params.content, Vec(params.content), t,
                                     params.tags)}
                  ELSE memory_embeddings
             /\ nextId' = nextId + 2
             /\ embeddingAvailable' = g.flag
             /\ Served([op |-> "addInstruction", project |-> projectId, params |-> params,
                        id |-> nextId, deduplicated |-> FALSE, vectors |-> g.vectors,
                        called |-> g.probed \/ g.batched, fuzzy |-> trgm])
             /\ UNCHANGED <<projects, sessions, snapshots, todos, notes, error_patterns,
                            project_brief, pgTrgm>>

\* UPDATE instructions SET active = false WHERE id = $1 AND project_id = $2
removeInstruction(projectId, id) ==
    /\ instructions' = {IF r.id = id /\ r.project_id = projectId
                        THEN [r EXCEPT !.active = FALSE] ELSE r : r \in instructions}
    /\ Served([op |-> "removeInstruction", project |-> projectId, id |-> id,
               message |-> "Instruction deactivated"])
    /\ UNCHANGED <<projects, sessions, snapshots, todos, notes, error_patterns,
                   project_brief, memory_embeddings, embeddingAvailable, pgTrgm, nextId>>

\* SELECT * FROM instructions WHERE project_id = $1 AND active = true: the rows
\* getInstructions and sessionSync return (their order is left out)
getInstructions(projectId) ==
    {r \in instructions : r.project_id = projectId /\ r.active}

(***************************************************************************)
(* tools.ts: the project brief, one atomic upsert.  Of the five optional   *)
(* text columns tech_stack stands for all (each is stored as given and     *)
(* joined into the embedded text when non-empty).                          *)
(***************************************************************************)
\* [..].filter(Boolean).join(". ")
RECURSIVE JoinDot(_)
JoinDot(parts) ==
    IF parts = <<>> THEN <<>>
    ELSE IF ~Truthy(Head(parts)) THEN JoinDot(Tail(parts))
    ELSE LET rest == JoinDot(Tail(parts))
         IN  IF rest = <<>> THEN Head(parts) ELSE Head(parts) \o <<".", " ">> \o rest

setProjectBrief(projectId, params) ==
    LET t == now + 1
        fullText == JoinDot(<<params.project_name, params.tech_stack>>)
        row == [project_id |-> projectId, project_name |-> params.project_name,
                tech_stack |-> OrNull(params.tech_stack), updated_at |-> t]
    IN  \E g \in EmbedResults(1) :
        /\ project_brief' = {r \in project_brief : r.project_id # projectId} \cup {row}
        /\ memory_embeddings' =
             IF g.vectors
             THEN {e \in memory_embeddings :
                     ~(e.project_id = projectId /\ e.content_type = "brief")}
                  \cup {EmbeddingRow(nextId + 1, projectId, "snapshot", nextId, "brief",
                                     fullText, Vec(fullText), t, {"project-brief"})}
             ELSE memory_embeddings
        /\ nextId' = nextId + 2
        /\ embeddingAvailable' = g.flag
        /\ Served([op |-> "setProjectBrief", project |-> projectId, params |-> params,
                   vectors |-> g.vectors])
        /\ UNCHANGED <<projects, sessions, snapshots, todos, notes, error_patterns,
                       instructions, pgTrgm>>

(***************************************************************************)
(* tools.ts: memory search.  A sub-query's ORDER BY ... LIMIT returns any  *)
(* leading part of any ordering of the matching rows that respects the     *)
(* sort key (rows with equal keys come in any order).                      *)
(***************************************************************************)
Min(a, b) == IF a < b THEN a ELSE b

\* before is the sort key's order on S: the pairs <<a, b>> where a may come
\* before b
OrderedPrefixes(S, before, k) ==
    LET n == Min(Cardinality(S), k)
    IN  {s \in [1..n -> S] :
           /\ \A i, j \in 1..n : i < j => (s[i] # s[j] /\ <<s[i], s[j]>> \in before)
           /\ \A x \in S \ Range(s) : \A i \in 1..n : <<s[i], x>> \in before}

\* AND me.content_type = $n (when given) AND me.tags && $n (when non-empty)
PassesFilters(e, content_type, tags) ==
    /\ content_type = NULL \/ e.content_type = content_type
    /\ tags = {} \/ e.tags \cap tags # {}

\* a result row: the selected columns and the sub-query that produced it
\* (the similarity column, 1 - distance or 0, is not kept)
ResultItem(e, mode) ==
    [id |-> e.id, source_type |-> e.source_type, source_id |-> e.source_id,
     content_type |-> e.content_type, content_text |-> e.content_text,
     tags |-> e.tags, created_at |-> e.created_at, search_mode |-> mode]

Tagged(rows, mode) == [i \in DOMAIN rows |-> ResultItem(rows[i], mode)]

\* hnsw.ef_search: the number of nearest rows a scan of idx_embeddings_vector
\* hands on (pgvector's default is 40; scaled here to the tables of the model)
EfSearch == 1

\* The rows the semantic query ranks, by the plan PostgreSQL chooses: every row
\* that passes WHERE (sequential or b-tree scan), or, by a scan of the HNSW index
\* idx_embeddings_vector, the rows that pass WHERE among the EfSearch rows of the
\* whole table nearest to q (an approximate index applies WHERE after the scan).
SemanticCandidates(projectId, content_type, tags, q) ==
    LET passing == {e \in memory_embeddings :
                      e.project_id = projectId /\ PassesFilters(e, content_type, tags)}
        nearerInTable == {ab \in memory_embeddings \X memory_embeddings :
                            CosineAtMost(ab[1].embedding, ab[2].embedding, q)}
    IN  {passing} \cup
        {Range(scan) \cap passing :
           scan \in OrderedPrefixes(memory_embeddings, nearerInTable, EfSearch)}

\* ORDER BY me.embedding <=> $1::vector LIMIT $n over the candidate rows
NearestRows(cand, q, limit) ==
    LET nearer == {ab \in cand \X cand :
                     CosineAtMost(ab[1].embedding, ab[2].embedding, q)}
    IN  {Tagged(rows, "semantic") : rows \in OrderedPrefixes(cand, nearer, limit)}

\* faulty variant: the semantic sub-query runs without looking at what embed returned
SemanticSubqueryAlways(projectId, query, content_type, tags, limit, vectors) ==
    UNION {NearestRows(cand, Vec(query), limit) :
             cand \in SemanticCandidates(projectId, content_type, tags, Vec(query))}

\* the semantic sub-query: the possible row lists, given whether embed([query])
\* returned vectors
SemanticSubquery(projectId, query, content_type, tags, limit, vectors) ==
    IF vectors
    THEN UNION {NearestRows(cand, Vec(query), limit) :
                  cand \in SemanticCandidates(projectId, content_type, tags, Vec(query))}
    ELSE {<<>>}

\* the keyword sub-query
KeywordSubquery(projectId, query, content_type, tags, limit) ==
    LET cand == {e \in memory_embeddings :
                   /\ e.project_id = projectId
                   /\ ILike(e.content_text, KeywordPattern(query))
                   /\ PassesFilters(e, content_type, tags)}
        newer == {ab \in cand \X cand : ab[1].created_at >= ab[2].created_at}
    IN  {Tagged(rows, "keyword") : rows \in OrderedPrefixes(cand, newer, limit)}

\* faulty variant: the filter keeps every row
FirstByIdKeepsAll(results, seen) == results

\* results.filter(first occurrence of r.id)
RECURSIVE FirstById(_, _)
FirstById(results, seen) ==
    IF results = <<>> THEN <<>>
    ELSE IF Head(results).id \in seen THEN FirstById(Tail(results), seen)
    ELSE <<Head(results)>> \o FirstById(Tail(results), seen \cup {Head(results).id})

\* .slice(0, limit)
Slice(results, limit) == SubSeq(results, 1, Min(Len(results), limit))

HybridMerge(results, limit) == Slice(FirstById(results, {}), limit)

retrieveMemory(projectId, params) ==
    LET mode == params.mode
        limit == params.limit
    IN  \E g \in (IF mode \in {"semantic", "hybrid"} THEN EmbedResults(1) ELSE {NoEmbed}) :
        \E sem \in (IF mode \in {"semantic", "hybrid"}
                    THEN SemanticSubquery(projectId, params.query, params.content_type,
                                          params.tags, limit, g.vectors)
                    ELSE {<<>>}) :
        \E kw \in (IF mode \in {"keyword", "hybrid"}
                   THEN KeywordSubquery(projectId, params.query, params.content_type,
                                        params.tags, limit)
                   ELSE {<<>>}) :
            /\ embeddingAvailable' = g.flag
            /\ Served([op |-> "retrieveMemory", project |-> projectId, params |-> params,
                       vectors |-> g.vectors, semantic |-> sem, keyword |-> kw,
                       results |-> IF mode = "hybrid" THEN HybridMerge(sem \o kw, limit)
                                   ELSE sem \o kw])
            /\ UNCHANGED <<tables, pgTrgm, nextId>>

(***************************************************************************)
(* tools.ts: checkErrorPatterns.  A result keeps the id, project and       *)
(* message of the pattern and the kind of match.                           *)
(***************************************************************************)
CheckThreshold == 3                                   \* similarity(...) > 0.3

PatternItem(r, matchType) ==
    [id |-> r.id, project_id |-> r.project_id, error_message |-> r.error_message,
     match_type |-> matchType]

PatternItems(rows, matchType) == [i \in DOMAIN rows |-> PatternItem(rows[i], matchType)]

\* the text query (similarity, or ILIKE on the first 100 characters when the
\* similarity query fails): the possible row lists
TextPatterns(projectId, errorMessage, limit, trgm) ==
    IF trgm
    THEN LET cand == {r \in error_patterns :
                        /\ r.project_id = projectId
                        /\ SimilarityExceeds(r.error_message, errorMessage, CheckThreshold)}
             closer == {ab \in cand \X cand :
                          SimilarityAtLeast(ab[1].error_message, ab[2].error_message,
                                            errorMessage)}
         IN  {PatternItems(rows, "text") : rows \in OrderedPrefixes(cand, closer, limit)}
    ELSE LET cand == {r \in error_patterns :
                        /\ r.project_id = projectId
                        /\ ILike(r.error_message,
                                 KeywordPattern(SubSeq(errorMessage, 1,
                                                       Min(100, Len(errorMessage)))))}
             newer == {ab \in cand \X cand : ab[1].last_seen_at >= ab[2].last_seen_at}
         IN  {PatternItems(rows, "keyword") : rows \in OrderedPrefixes(cand, newer, limit)}

\* for (const r of rows): skip a seen source_id, look the pattern up by id alone,
\* push it when it exists
RECURSIVE SemanticPatterns(_, _)
SemanticPatterns(rows, seen) ==
    IF rows = <<>> THEN <<>>
    ELSE LET found == {r \in error_patterns : r.id = Head(rows).source_id}
         IN  IF Head(rows).source_id \in seen \/ found = {}
             THEN SemanticPatterns(Tail(rows), seen)
             ELSE <<PatternItem(CHOOSE r \in found : TRUE, "semantic")>>
                  \o SemanticPatterns(Tail(rows), seen \cup {Head(rows).source_id})

checkErrorPatterns(projectId, errorMessage, limit, trgm) ==
    \E text \in TextPatterns(projectId, errorMessage, limit, trgm) :
    \E g \in (IF Len(text) < limit THEN EmbedResults(1) ELSE {NoEmbed}) :
    \E rows \in (IF Len(text) < limit
                 THEN SemanticSubquery(projectId, errorMessage, "error", {}, limit,
                                       g.vectors)
                 ELSE {<<>>}) :
        LET results == text \o SemanticPatterns(rows, {text[i].id : i \in DOMAIN text})
        IN  /\ embeddingAvailable' = g.flag
            /\ Served([op |-> "checkErrorPatterns", project |-> projectId,
                       error_message |-> errorMessage, limit |-> limit, fuzzy |-> trgm,
                       vectors |-> g.vectors,
                       patterns |-> Slice(results, limit),
                       \* `Found ${results.length} matching error pattern(s). ...`
                       found |-> Len(results)])
            /\ UNCHANGED <<tables, pgTrgm, nextId>>

(***************************************************************************)
(* tools.ts: prune.  The clock of the model advances by one with each      *)
(* request; make_interval(days => n) is n units of that clock.             *)
(***************************************************************************)
\* faulty variant: the tags of a record do not protect it
pruneMemoryUntagged(projectId, olderThanDays, keepTagged) ==
    LET t == now + 1
        gone == {e \in memory_embeddings :
                   e.project_id = projectId /\ e.created_at < t - olderThanDays}
    IN  /\ memory_embeddings' = memory_embeddings \ gone
        /\ Served([op |-> "pruneMemory", project |-> projectId,
                   older_than_days |-> olderThanDays, keep_tagged |-> keepTagged,
                   pruned |-> Cardinality(gone)])
        /\ UNCHANGED <<projects, sessions, snapshots, todos, notes, error_patterns,
                       instructions, project_brief, embeddingAvailable, pgTrgm, nextId>>

pruneMemory(projectId, olderThanDays, keepTagged) ==
    LET t == now + 1
        gone == {e \in memory_embeddings :
                   /\ e.project_id = projectId
                   /\ e.created_at < t - olderThanDays
                   /\ keepTagged # {} => ~(e.tags \cap keepTagged # {})}
    IN  /\ memory_embeddings' = memory_embeddings \ gone
        /\ Served([op |-> "pruneMemory", project |-> projectId,
                   older_than_days |-> olderThanDays, keep_tagged |-> keepTagged,
                   pruned |-> Cardinality(gone)])
        /\ UNCHANGED <<projects, sessions, snapshots, todos, notes, error_patterns,
                       instructions, project_brief, embeddingAvailable, pgTrgm, nextId>>

(***************************************************************************)
(* tools.ts: delete project, table by table.  Deleting a snapshot or a     *)
(* session sets the columns that reference it to NULL (ON DELETE SET NULL  *)
(* in the schema).                                                         *)
(***************************************************************************)
InProject(table, projectId) == {r \in table : r.project_id = projectId}

deleteProject(projectId) ==
    LET goneSnapshots == {r.id : r \in InProject(snapshots, projectId)}
        goneSessions == {r.id : r \in InProject(sessions, projectId)}
        SnapshotSetNull(r) ==
            IF r.snapshot_id \cap goneSnapshots # {}
            THEN [r EXCEPT !.snapshot_id = NoRef] ELSE r
        SessionSetNull(r) ==
            IF r.session_id \cap goneSessions # {}
            THEN [r EXCEPT !.session_id = NoRef] ELSE r
        counts == [memory_embeddings |-> Cardinality(InProject(memory_embeddings, projectId)),
                   todos |-> Cardinality(InProject(todos, projectId)),
                   notes |-> Cardinality(InProject(notes, projectId)),
                   error_patterns |-> Cardinality(InProject(error_patterns, projectId)),
                   instructions |-> Cardinality(InProject(instructions, projectId)),
                   project_brief |-> Cardinality(InProject(project_brief, projectId)),
                   snapshots |-> Cardinality(InProject(snapshots, projectId)),
                   sessions |-> Cardinality(InProject(sessions, projectId)),
                   projects |-> Cardinality({r \in projects : r.id = projectId})]
    IN  /\ memory_embeddings' = memory_embeddings \ InProject(memory_embeddings, projectId)
        /\ todos' = {SnapshotSetNull(r) : r \in todos \ InProject(todos, projectId)}
        /\ notes' = {SnapshotSetNull(r) : r \in notes \ InProject(notes, projectId)}
        /\ error_patterns' = error_patterns \ InProject(error_patterns, projectId)
        /\ instructions' = instructions \ InProject(instructions, projectId)
        /\ project_brief' = project_brief \ InProject(project_brief, projectId)
        /\ snapshots' = {SessionSetNull(r) : r \in snapshots \ InProject(snapshots, projectId)}
        /\ sessions' = sessions \ InProject(sessions, projectId)
        /\ projects' = {r \in projects : r.id # projectId}
        /\ Served([op |-> "deleteProject", project |-> projectId, deleted |-> counts])
        /\ UNCHANGED <<embeddingAvailable, pgTrgm, nextId>>

(***************************************************************************)
(* Initial state: an empty database, the availability flag unknown; the    *)
(* pg_trgm extension is installed or not.                                  *)
(***************************************************************************)
(***************************************************************************)
(* Calls served statement by statement.  Node runs a function up to its    *)
(* next await and may run any other call before it resumes it.  inflight   *)
(* holds every such call: pc is the await it stands at ("done" once it has *)
(* returned), the other fields are its local variables and what it did.    *)
(***************************************************************************)
Call(op, projectId, params, pc, n) ==
    [op |-> op, project |-> projectId, params |-> params, pc |-> pc,
     n |-> n,                  \* texts.length of its embed call
     found |-> {},             \* the id the dedup helper returned, if any
     id |-> NoId,              \* the id of the record written
     text |-> <<>>,            \* the text handed to embed
     probes |-> 0,             \* GET /health requests sent
     batches |-> 0,            \* POST /embed requests sent
     probe |-> "none",         \* how its probe ended
     own |-> "none",           \* how its batch request ended
     result |-> "none",        \* what embed returned: "vectors", "null", "thrown"
     deduplicated |-> FALSE,
     results |-> <<>>]         \* the list a search returns

Arrive(c) ==
    /\ inflight' = Append(inflight, c)
    /\ UNCHANGED <<tables, embeddingAvailable, pgTrgm, now, nextId, history>>

Resume(i, c) == inflight' = [inflight EXCEPT ![i] = c]

\* where a call goes on when embed has returned
AfterEmbed(c) == IF c.op = "embed" THEN "done" ELSE "index"

\* embed(texts) up to its first await: the empty list returns at once; with the
\* flag null or false checkEmbeddingService is called and sends GET /health;
\* with the flag true POST /embed is sent
EmbedEnter(i) ==
    LET c == inflight[i]
    IN  /\ c.pc = "embed"
        /\ Resume(i, IF c.n = 0
                     THEN [c EXCEPT !.result = "vectors", !.pc = AfterEmbed(c)]
                     ELSE IF embeddingAvailable \in {"null", "false"}
                          THEN [c EXCEPT !.pc = "probe", !.probes = @ + 1]
                          ELSE [c EXCEPT !.pc = "batch", !.batches = @ + 1])
        /\ UNCHANGED <<tables, embeddingAvailable, pgTrgm, now, nextId, history>>

\* faulty variant: the fetch of the probe has no abort signal
ProbeSettlesNoTimeout(i, probe) ==
    LET c == inflight[i]
    IN  /\ c.pc = "probe"
        /\ probe # "timeout"
        /\ embeddingAvailable' = checkEmbeddingService(probe)
        /\ Resume(i, [c EXCEPT !.probe = probe,
                               !.pc = IF c.op = "checkEmbeddingService"
                                      THEN "done" ELSE "probed"])
        /\ UNCHANGED <<tables, pgTrgm, now, nextId, history>>

\* the fetch of checkEmbeddingService settles (an answer, a network error, or
\* the abort signal after 3000 ms); the flag is assigned and the function returns
ProbeSettles(i, probe) ==
    LET c == inflight[i]
    IN  /\ c.pc = "probe"
        /\ embeddingAvailable' = checkEmbeddingService(probe)
        /\ Resume(i, [c EXCEPT !.probe = probe,
                               !.pc = IF c.op = "checkEmbeddingService"
                                      THEN "done" ELSE "probed"])
        /\ UNCHANGED <<tables, pgTrgm, now, nextId, history>>

\* faulty variant: embed probes again while the flag is not true
EmbedResumesProbesAgain(i) ==
    LET c == inflight[i]
    IN  /\ c.pc = "probed"
        /\ Resume(i, IF embeddingAvailable # "true"
                     THEN [c EXCEPT !.pc = "probe", !.probes = @ + 1]
                     ELSE [c EXCEPT !.pc = "batch", !.batches = @ + 1])
        /\ UNCHANGED <<tables, embeddingAvailable, pgTrgm, now, nextId, history>>

\* embed resumes after `await checkEmbeddingService()` and reads the flag:
\* if (!embeddingAvailable) return null; otherwise POST /embed is sent
EmbedResumes(i) ==
    LET c == inflight[i]
    IN  /\ c.pc = "probed"
        /\ Resume(i, IF embeddingAvailable # "true"
                     THEN [c EXCEPT !.result = "null", !.pc = AfterEmbed(c)]
                     ELSE [c EXCEPT !.pc = "batch", !.batches = @ + 1])
        /\ UNCHANGED <<tables, embeddingAvailable, pgTrgm, now, nextId, history>>

\* the fetch of embed settles (an answer, a network error, or the abort signal
\* after 30000 ms) and embed returns
BatchSettles(i, batch) ==
    LET c == inflight[i]
        done == embedCatch(embedTry(batch), embeddingAvailable)
    IN  /\ c.pc = "batch"
        /\ embeddingAvailable' = done.flag
        /\ Resume(i, [c EXCEPT !.own = batch, !.result = done.result,
                               !.pc = AfterEmbed(c)])
        /\ UNCHANGED <<tables, pgTrgm, now, nextId, history>>

(***************************************************************************)
(* tools.ts, statement by statement.  Each operator is the next statement  *)
(* of one call: "find" is the query of the dedup helper, "write" the       *)
(* INSERT or UPDATE of the structured row, "embed" to "batch" the call of  *)
(* embed, "index" the statement on memory_embeddings and the return.       *)
(***************************************************************************)
\* rows[0] of a query result: no row, or any one of the rows it may return
FirstRow(rows) == IF rows = {} THEN {{}} ELSE {{r} : r \in rows}

\* a statement that leaves the tables alone
NoWrite == UNCHANGED <<tables, embeddingAvailable, pgTrgm, now, nextId, history>>

\* the statement on memory_embeddings after embed, and the return: `rows` is the
\* table after the statement, which runs only if embed returned vectors
IndexAndReturn(i, rows) ==
    LET c == inflight[i]
    IN  /\ c.pc = "index"
        /\ memory_embeddings' = IF c.result = "vectors" THEN rows ELSE memory_embeddings
        /\ now' = IF c.result = "vectors" THEN now + 1 ELSE now
        /\ Resume(i, [c EXCEPT !.pc = "done"])
        /\ UNCHANGED <<projects, sessions, snapshots, todos, notes, error_patterns,
                       instructions, project_brief, embeddingAvailable, pgTrgm, nextId,
                       history>>

addNoteStep(i, trgm) ==
    LET c == inflight[i]
        params == c.params
        category == IF params.category = NULL THEN "general" ELSE params.category
        t == now + 1
    IN  /\ c.op = "addNote"
        /\ \/ /\ c.pc = "find"
              /\ \E f \in FirstRow(findSimilarNote(c.project, params.content, category,
                                                   trgm)) :
                    Resume(i, [c EXCEPT !.found = f, !.pc = "write"])
              /\ NoWrite
           \/ /\ c.pc = "write" /\ c.found # {}
              /\ notes' = {IF r.id \in c.found
                           THEN [r EXCEPT !.content = params.content,
                                          !.tags = params.tags, !.created_at = t]
                           ELSE r : r \in notes}
              /\ now' = t
              /\ Resume(i, [c EXCEPT !.id = CHOOSE x \in c.found : TRUE,
                                     !.deduplicated = TRUE,
                                     !.text = params.content, !.pc = "embed"])
              /\ UNCHANGED <<projects, sessions, snapshots, todos, error_patterns,
                             instructions, project_brief, memory_embeddings,
                             embeddingAvailable, pgTrgm, nextId, history>>
           \/ /\ c.pc = "write" /\ c.found = {}
              /\ SnapshotRef(params.snapshot_id)
              /\ notes' = notes \cup
                   {[id |-> nextId, project_id |-> c.project, content |-> params.content,
                     category |-> category, tags |-> params.tags,
                     related_files |-> params.related_files,
                     snapshot_id |-> params.snapshot_id, created_at |-> t]}
              /\ now' = t
              /\ nextId' = nextId + 2
              /\ Resume(i, [c EXCEPT !.id = nextId, !.text = params.content,
                                     !.pc = "embed"])
              /\ UNCHANGED <<projects, sessions, snapshots, todos, error_patterns,
                             instructions, project_brief, memory_embeddings,
                             embeddingAvailable, pgTrgm, history>>
           \/ IndexAndReturn(i,
                IF c.deduplicated
                THEN UpdateEmbedding("note", c.id, c.text, t)
                ELSE memory_embeddings \cup
                     {EmbeddingRow(c.id + 1, c.project, "note", c.id,
                                   NoteContentType(category), c.text, Vec(c.text), t,
                                   params.tags)})

\* faulty variant: the todo is inserted after embed has returned
addTodoStepEmbedsFirst(i) ==
    LET c == inflight[i]
        params == c.params
        status == IF params.status = NULL THEN "todo" ELSE params.status
        t == now + 1
    IN  /\ c.op = "addTodo"
        /\ \/ /\ c.pc = "write"
              /\ nextId' = nextId + 2
              /\ Resume(i, [c EXCEPT !.id = nextId,
                                     !.text = TaskPrefix \o params.title \o <<".", " ">>
                                              \o OrEmpty(params.description),
                                     !.pc = "embed"])
              /\ UNCHANGED <<tables, embeddingAvailable, pgTrgm, now, history>>
           \/ /\ c.pc = "index"
              /\ todos' = todos \cup
                   {[id |-> c.id, project_id |-> c.project, title |-> params.title,
                     description |-> OrNull(params.description), status |-> status,
                     snapshot_id |-> params.snapshot_id, tags |-> params.tags,
                     created_at |-> t, completed_at |-> NoTime]}
              /\ memory_embeddings' =
                   IF c.result = "vectors"
                   THEN memory_embeddings \cup
                        {EmbeddingRow(c.id + 1, c.project, "todo", c.id, "task",
                                      params.title \o <<":", " ">>
                                      \o OrEmpty(params.description),
                                      Vec(c.text), t, params.tags)}
                   ELSE memory_embeddings
              /\ now' = t
              /\ Resume(i, [c EXCEPT !.pc = "done"])
              /\ UNCHANGED <<projects, sessions, snapshots, notes, error_patterns,
                             instructions, project_brief, embeddingAvailable, pgTrgm,
                             nextId, history>>

addTodoStep(i) ==
    LET c == inflight[i]
        params == c.params
        status == IF params.status = NULL THEN "todo" ELSE params.status
        t == now + 1
    IN  /\ c.op = "addTodo"
        /\ \/ /\ c.pc = "write"
              /\ SnapshotRef(params.snapshot_id)
              /\ todos' = todos \cup
                   {[id |-> nextId, project_id |-> c.project, title |-> params.title,
                     description |-> OrNull(params.description), status |-> status,
                     snapshot_id |-> params.snapshot_id, tags |-> params.tags,
                     created_at |-> t, completed_at |-> NoTime]}
              /\ now' = t
              /\ nextId' = nextId + 2
              /\ Resume(i, [c EXCEPT !.id = nextId,
                                     !.text = TaskPrefix \o params.title \o <<".", " ">>
                                              \o OrEmpty(params.description),
                                     !.pc = "embed"])
              /\ UNCHANGED <<projects, sessions, snapshots, notes, error_patterns,
                             instructions, project_brief, memory_embeddings,
                             embeddingAvailable, pgTrgm, history>>
           \/ IndexAndReturn(i,
                memory_embeddings \cup
                {EmbeddingRow(c.id + 1, c.project, "todo", c.id, "task",
                              params.title \o <<":", " ">> \o OrEmpty(params.description),
                              Vec(c.text), t, params.tags)})

addInstructionStep(i, trgm) ==
    LET c == inflight[i]
        params == c.params
        category == IF params.category = NULL THEN "general" ELSE params.category
        t == now + 1
    IN  /\ c.op = "addInstruction"
        /\ \/ /\ c.pc = "find"
              /\ \E f \in FirstRow(findSimilarInstruction(c.project, params.content,
                                                          trgm)) :
                    Resume(i, IF f = {}
                              THEN [c EXCEPT !.pc = "write"]
                              ELSE [c EXCEPT !.found = f,
                                             !.id = CHOOSE x \in f : TRUE,
                                             !.deduplicated = TRUE, !.pc = "done"])
              /\ NoWrite
           \/ /\ c.pc = "write"
              /\ instructions' = instructions \cup
                   {[id |-> nextId, project_id |-> c.project, content |-> params.content,
                     category |-> category, active |-> TRUE,
                     priority |-> params.priority, tags |-> params.tags,
                     created_at |-> t]}
              /\ now' = t
              /\ nextId' = nextId + 2
              /\ Resume(i, [c EXCEPT !.id = nextId, !.text = params.content,
                                     !.pc = "embed"])
              /\ UNCHANGED <<projects, sessions, snapshots, todos, notes, error_patterns,
                             project_brief, memory_embeddings, embeddingAvailable,
                             pgTrgm, history>>
           \/ IndexAndReturn(i,
                memory_embeddings \cup
                {EmbeddingRow(c.id + 1, c.project, "instruction", c.id, "instruction",
                              c.text, Vec(c.text), t, params.tags)})

\* found holds the row the helper returned (id, attempted_fixes, occurrence_count)
logErrorPatternStep(i, trgm) ==
    LET c == inflight[i]
        params == c.params
        t == now + 1
    IN  /\ c.op = "logErrorPattern"
        /\ \/ /\ c.pc = "find"
              /\ \E f \in FirstRow(findSimilarErrorPattern(c.project,
                                                           params.error_message, trgm)) :
                    Resume(i, [c EXCEPT !.found = f, !.pc = "write"])
              /\ NoWrite
           \/ /\ c.pc = "write" /\ c.found # {}
              /\ LET existing == CHOOSE x \in c.found : TRUE
                 IN  /\ error_patterns' =
                          {IF r.id = existing.id
                           THEN [r EXCEPT
                                   !.occurrence_count = @ + 1,
                                   !.last_seen_at = t,
                                   !.attempted_fixes = mergedFixes(existing, params),
                                   !.root_cause = Coalesce(OrNull(params.root_cause), @),
                                   !.resolution = Coalesce(OrNull(params.resolution), @),
                                   !.file_paths = Coalesce(params.file_paths, @)]
                           ELSE r : r \in error_patterns}
                     /\ Resume(i, [c EXCEPT
                                     !.id = existing.id, !.deduplicated = TRUE,
                                     !.text = IF Truthy(params.resolution)
                                              THEN MergedErrorText(params) ELSE <<>>,
                                     !.pc = IF Truthy(params.resolution)
                                            THEN "embed" ELSE "done"])
              /\ now' = t
              /\ UNCHANGED <<projects, sessions, snapshots, todos, notes, instructions,
                             project_brief, memory_embeddings, embeddingAvailable,
                             pgTrgm, nextId, history>>
           \/ /\ c.pc = "write" /\ c.found = {}
              /\ error_patterns' = error_patterns \cup
                   {[id |-> nextId, project_id |-> c.project,
                     error_message |-> params.error_message,
                     attempted_fixes |-> params.attempted_fixes,
                     root_cause |-> OrNull(params.root_cause),
                     resolution |-> OrNull(params.resolution),
                     file_paths |-> IF params.file_paths = NULL THEN {}
                                    ELSE params.file_paths,
                     tags |-> params.tags, occurrence_count |-> 1,
                     last_seen_at |-> t, created_at |-> t]}
              /\ now' = t
              /\ nextId' = nextId + 2
              /\ Resume(i, [c EXCEPT !.id = nextId, !.text = NewErrorText(params),
                                     !.pc = "embed"])
              /\ UNCHANGED <<projects, sessions, snapshots, todos, notes, instructions,
                             project_brief, memory_embeddings, embeddingAvailable,
                             pgTrgm, history>>
           \/ IndexAndReturn(i,
                IF c.deduplicated
                THEN UpdateEmbedding("error_pattern", c.id, c.text, t)
                ELSE memory_embeddings \cup
                     {EmbeddingRow(c.id + 1, c.project, "error_pattern", c.id, "error",
                                   c.text, Vec(c.text), t, params.tags)})

\* the texts createSnapshot embeds, and their content types
SnapshotTexts(params) ==
    (IF Truthy(params.summary) THEN <<params.summary>> ELSE <<>>)
    \o (IF Truthy(params.architecture_notes) THEN <<params.architecture_notes>>
        ELSE <<>>)

SnapshotTypes(params) ==
    (IF Truthy(params.summary) THEN <<"summary">> ELSE <<>>)
    \o (IF Truthy(params.architecture_notes) THEN <<"architecture">> ELSE <<>>)

\* the INSERTs of the loop over textsToEmbed are taken as one statement
createSnapshotStep(i) ==
    LET c == inflight[i]
        params == c.params
        texts == SnapshotTexts(params)
        types == SnapshotTypes(params)
        t == now + 1
    IN  /\ c.op = "createSnapshot"
        /\ \/ /\ c.pc = "write"
              /\ SessionRef(params.session_id)
              /\ snapshots' = snapshots \cup
                   {[id |-> nextId, project_id |-> c.project, summary |-> params.summary,
                     architecture_notes |-> OrNull(params.architecture_notes),
                     tags |-> params.tags, session_id |-> params.session_id,
                     created_at |-> t]}
              /\ sessions' = {IF r.id \in params.session_id
                              THEN [r EXCEPT !.snapshot_count = @ + 1]
                              ELSE r : r \in sessions}
              /\ now' = t
              /\ nextId' = nextId + 3
              /\ Resume(i, [c EXCEPT !.id = nextId, !.n = Len(texts),
                                     !.pc = IF Len(texts) > 0 THEN "embed" ELSE "done"])
              /\ UNCHANGED <<projects, todos, notes, error_patterns, instructions,
                             project_brief, memory_embeddings, embeddingAvailable,
                             pgTrgm, history>>
           \/ IndexAndReturn(i,
                memory_embeddings \cup
                {EmbeddingRow(c.id + k, c.project, "snapshot", c.id, types[k], texts[k],
                              Vec(texts[k]), t, params.tags) : k \in 1..Len(texts)})

\* the upsert is one statement; after embed, DELETE ("index") and INSERT
\* ("insert") are two statements
setProjectBriefStep(i) ==
    LET c == inflight[i]
        params == c.params
        t == now + 1
    IN  /\ c.op = "setProjectBrief"
        /\ \/ /\ c.pc = "write"
              /\ project_brief' =
                   {r \in project_brief : r.project_id # c.project}
                   \cup {[project_id |-> c.project, project_name |-> params.project_name,
                          tech_stack |-> OrNull(params.tech_stack), updated_at |-> t]}
              /\ now' = t
              /\ Resume(i, [c EXCEPT !.text = JoinDot(<<params.project_name,
                                                        params.tech_stack>>),
                                     !.pc = "embed"])
              /\ UNCHANGED <<projects, sessions, snapshots, todos, notes, error_patterns,
                             instructions, memory_embeddings, embeddingAvailable,
                             pgTrgm, nextId, history>>
           \/ /\ c.pc = "index"
              /\ memory_embeddings' =
                   IF c.result = "vectors"
                   THEN {e \in memory_embeddings :
                           ~(e.project_id = c.project /\ e.content_type = "brief")}
                   ELSE memory_embeddings
              /\ now' = IF c.result = "vectors" THEN t ELSE now
              /\ Resume(i, [c EXCEPT !.pc = IF c.result = "vectors" THEN "insert"
                                            ELSE "done"])
              /\ UNCHANGED <<projects, sessions, snapshots, todos, notes, error_patterns,
                             instructions, project_brief, embeddingAvailable, pgTrgm,
                             nextId, history>>
           \/ /\ c.pc = "insert"
              /\ memory_embeddings' = memory_embeddings \cup
                   {EmbeddingRow(nextId + 1, c.project, "snapshot", nextId, "brief",
                                 c.text, Vec(c.text), t, {"project-brief"})}
              /\ now' = t
              /\ nextId' = nextId + 2
              /\ Resume(i, [c EXCEPT !.id = nextId, !.pc = "done"])
              /\ UNCHANGED <<projects, sessions, snapshots, todos, notes, error_patterns,
                             instructions, project_brief, embeddingAvailable, pgTrgm,
                             history>>

\* retrieveMemory after embed has returned: the sub-queries of the mode and the
\* merged list
retrieveMemoryStep(i) ==
    LET c == inflight[i]
        params == c.params
    IN  /\ c.op = "retrieveMemory"
        /\ c.pc = "index"
        /\ \E sem \in (IF params.mode \in {"semantic", "hybrid"}
                       THEN SemanticSubquery(c.project, params.query, params.content_type,
                                             params.tags, params.limit,
                                             c.result = "vectors")
                       ELSE {<<>>}) :
           \E kw \in (IF params.mode \in {"keyword", "hybrid"}
                      THEN KeywordSubquery(c.project, params.query, params.content_type,
                                           params.tags, params.limit)
                      ELSE {<<>>}) :
              Resume(i, [c EXCEPT !.pc = "done",
                                  !.results = IF params.mode = "hybrid"
                                              THEN HybridMerge(sem \o kw, params.limit)
                                              ELSE sem \o kw])
        /\ NoWrite

\* deleteNote, statement by statement; the call names the note in params.id
deleteNoteStep(i) ==
    LET c == inflight[i]
        id == c.params.id
        gone == {r \in notes : r.id = id /\ r.project_id = c.project}
    IN  /\ c.op = "deleteNote"
        /\ \/ /\ c.pc = "embeddings"
              /\ memory_embeddings' =
                   {e \in memory_embeddings :
                      ~(e.source_type = "note" /\ e.source_id = id
                        /\ e.project_id = c.project)}
              /\ Resume(i, [c EXCEPT !.pc = "row"])
              /\ UNCHANGED <<projects, sessions, snapshots, todos, notes, error_patterns,
                             instructions, project_brief, embeddingAvailable, pgTrgm,
                             now, nextId, history>>
           \/ /\ c.pc = "row"
              /\ notes' = notes \ gone
              /\ Resume(i, [c EXCEPT !.id = id, !.pc = "done",
                                     !.result = IF gone = {} THEN "Note not found"
                                                ELSE "Note deleted"])
              /\ UNCHANGED <<projects, sessions, snapshots, todos, error_patterns,
                             instructions, project_brief, memory_embeddings,
                             embeddingAvailable, pgTrgm, now, nextId, history>>

deleteTodoStep(i) ==
    LET c == inflight[i]
        id == c.params.id
    IN  /\ c.op = "deleteTodo"
        /\ \/ /\ c.pc = "embeddings"
              /\ memory_embeddings' =
                   {e \in memory_embeddings :
                      ~(e.source_type = "todo" /\ e.source_id = id
                        /\ e.project_id = c.project)}
              /\ Resume(i, [c EXCEPT !.pc = "row"])
              /\ UNCHANGED <<projects, sessions, snapshots, todos, notes, error_patterns,
                             instructions, project_brief, embeddingAvailable, pgTrgm,
                             now, nextId, history>>
           \/ /\ c.pc = "row"
              /\ todos' = {r \in todos : ~(r.id = id /\ r.project_id = c.project)}
              /\ Resume(i, [c EXCEPT !.id = id, !.pc = "done",
                                     !.result = "Todo deleted"])
              /\ UNCHANGED <<projects, sessions, snapshots, notes, error_patterns,
                             instructions, project_brief, memory_embeddings,
                             embeddingAvailable, pgTrgm, now, nextId, history>>

\* the tables deleteProject deletes from, in its order
DeleteOrder ==
    <<"memory_embeddings", "todos", "notes", "error_patterns", "instructions",
      "project_brief", "snapshots", "sessions", "projects">>

\* deleteProject, one DELETE per step; pc is the table of the next DELETE
deleteProjectStep(i) ==
    LET c == inflight[i]
        p == c.project
        k == CHOOSE j \in DOMAIN DeleteOrder : DeleteOrder[j] = c.pc
        goneSnapshots == {r.id : r \in InProject(snapshots, p)}
        goneSessions == {r.id : r \in InProject(sessions, p)}
        SnapshotSetNull(r) ==
            IF r.snapshot_id \cap goneSnapshots # {}
            THEN [r EXCEPT !.snapshot_id = NoRef] ELSE r
        SessionSetNull(r) ==
            IF r.session_id \cap goneSessions # {}
            THEN [r EXCEPT !.session_id = NoRef] ELSE r
    IN  /\ c.op = "deleteProject"
        /\ c.pc \in Range(DeleteOrder)
        /\ memory_embeddings' =
             IF c.pc = "memory_embeddings"
             THEN memory_embeddings \ InProject(memory_embeddings, p)
             ELSE memory_embeddings
        /\ todos' = IF c.pc = "todos" THEN todos \ InProject(todos, p)
                    ELSE IF c.pc = "snapshots" THEN {SnapshotSetNull(r) : r \in todos}
                    ELSE todos
        /\ notes' = IF c.pc = "notes" THEN notes \ InProject(notes, p)
                    ELSE IF c.pc = "snapshots" THEN {SnapshotSetNull(r) : r \in notes}
                    ELSE notes
        /\ error_patterns' =
             IF c.pc = "error_patterns"
             THEN error_patterns \ InProject(error_patterns, p) ELSE error_patterns
        /\ instructions' =
             IF c.pc = "instructions"
             THEN instructions \ InProject(instructions, p) ELSE instructions
        /\ project_brief' =
             IF c.pc = "project_brief"
             THEN project_brief \ InProject(project_brief, p) ELSE project_brief
        /\ snapshots' =
             IF c.pc = "snapshots" THEN snapshots \ InProject(snapshots, p)
             ELSE IF c.pc = "sessions" THEN {SessionSetNull(r) : r \in snapshots}
             ELSE snapshots
        /\ sessions' = IF c.pc = "sessions" THEN sessions \ InProject(sessions, p)
                       ELSE sessions
        /\ projects' = IF c.pc = "projects" THEN {r \in projects : r.id # p}
                       ELSE projects
        /\ Resume(i, [c EXCEPT !.pc = IF k = Len(DeleteOrder) THEN "done"
                                      ELSE DeleteOrder[k + 1]])
        /\ UNCHANGED <<embeddingAvailable, pgTrgm, now, nextId, history>>

Init ==
    /\ projects = {}
    /\ sessions = {}
    /\ snapshots = {}
    /\ todos = {}
    /\ notes = {}
    /\ error_patterns = {}
    /\ instructions = {}
    /\ project_brief = {}
    /\ memory_embeddings = {}
    /\ embeddingAvailable = "null"
    /\ pgTrgm \in BOOLEAN
    /\ now = 0
    /\ nextId = 1
    /\ history = <<>>
    /\ inflight = <<>>

(***************************************************************************)
(* SpecNote: the note write path (insert, merge, delete).                  *)
(***************************************************************************)
MaxNoteOps == 2      \* requests served in one behaviour of SpecNote

NoteParams ==
    [content : {TxtJwt, TxtJwt2, TxtPool, TxtPunct}, category : {NULL, "decision"},
     tags : {{}, {"auth"}}, related_files : {{}}, snapshot_id : {NoRef}]

NoteAdd ==
    /\ now < MaxNoteOps
    /\ \E p \in Projects, params \in NoteParams : addNote(p, params, pgTrgm)

NoteDelete ==
    /\ now < MaxNoteOps
    /\ \E p \in Projects, id \in {r.id : r \in notes} \cup {NoId} : deleteNote(p, id)

NextNote == NoteAdd \/ NoteDelete

SpecNote == Init /\ [][NextNote]_vars

(***************************************************************************)
(* Claims about the note write path.                                       *)
(***************************************************************************)
HasTrigram(text) == Trigrams(text) # {}

\* a note text that counts as a duplicate of another: equal, or more than 0.8 similar
SimilarNoteText(a, b) == a = b \/ SimilarityExceeds(a, b, NoteThreshold)

\* the last two requests were addNote calls with the same content, project and
\* category, the first of them inserted a note, and no other note of that project
\* and category is similar to the content (so none was before the first call)
TwoEqualNoteCalls ==
    /\ Len(history) >= 2
    /\ LET a == history[Len(history) - 1]
           b == history[Len(history)]
       IN  /\ a.op = "addNote" /\ b.op = "addNote"
           /\ a.project = b.project /\ a.category = b.category
           /\ a.params.content = b.params.content
           /\ ~a.deduplicated
           /\ \A r \in notes :
                (r.project_id = b.project /\ r.category = b.category
                 /\ r.id \notin {a.id, b.id})
                => ~SimilarNoteText(r.content, b.params.content)

\* the second call merged into the note of the first: one record, the first id,
\* deduplicated = true, created_at refreshed to the time of the second call
SecondCallMerged ==
    LET a == history[Len(history) - 1]
        b == history[Len(history)]
        same == {r \in notes : /\ r.project_id = b.project /\ r.category = b.category
                               /\ r.content = b.params.content}
    IN  /\ b.id = a.id
        /\ b.deduplicated
        /\ Cardinality(same) = 1
        /\ \A r \in same : r.id = a.id /\ r.created_at = now

C7_NoStaleNoteEmbedding ==
    \A e \in memory_embeddings : \A r \in notes :
        (e.source_type = "note" /\ e.source_id = r.id) => e.content_text = r.content

\* the item of the last request was first written while the gateway was unavailable
WrittenUnembedded ==
    \E i \in 1..(Len(history) - 1) :
        /\ history[i].op = last.op /\ history[i].id = last.id
        /\ ~history[i].deduplicated /\ ~history[i].vectors

\* C8: if an item was written while the gateway was unavailable, then after a later
\* update of it for which the gateway returned vectors (an addNote merge, or a
\* logErrorPattern merge carrying a resolution) the item has an EmbeddingRecord.
C8_UpdateRestoresEmbedding ==
    (/\ last.op \in {"addNote", "logErrorPattern"}
     /\ last.deduplicated /\ last.vectors
     /\ WrittenUnembedded)
    => \E e \in memory_embeddings :
         /\ e.source_id = last.id
         /\ e.source_type = (IF last.op = "addNote" THEN "note" ELSE "error_pattern")

(***************************************************************************)
(* SpecError: repeated logging of an error (insert, then merges).          *)
(***************************************************************************)
MaxErrorOps == 3

ErrorParams ==
    [error_message : {TxtPool, TxtPunct}, attempted_fixes : {{}, {"f1"}, {"f2"}},
     root_cause : {NULL}, resolution : {NULL}, file_paths : {NULL}, tags : {{}}]

ErrorLog ==
    /\ now < MaxErrorOps
    /\ \E p \in Projects, params \in ErrorParams : logErrorPattern(p, params, pgTrgm)

NextError == ErrorLog

SpecError == Init /\ [][NextError]_vars

\* an error text that counts as a duplicate of another: equal, or more than 0.7 similar
SimilarErrorText(a, b) == a = b \/ SimilarityExceeds(a, b, ErrorThreshold)

\* the last n requests were logErrorPattern calls with one error message in one
\* project, the first of them inserted a pattern, and no other pattern of that
\* project is similar to the message (so none was before the first of the n calls)
ErrorRun(n) ==
    /\ n <= Len(history)
    /\ LET run == (Len(history) - n + 1)..Len(history)
       IN  /\ \A i \in run : /\ history[i].op = "logErrorPattern"
                              /\ history[i].project = last.project
                              /\ history[i].params.error_message = last.params.error_message
           /\ ~history[Len(history) - n + 1].deduplicated
           /\ \A r \in error_patterns :
                (r.project_id = last.project /\ r.id \notin {history[i].id : i \in run})
                => ~SimilarErrorText(r.error_message, last.params.error_message)

\* one pattern of that project has the message; it counts n occurrences and holds
\* the union of the attempted fixes of the n calls
ErrorRunAccumulated(n) ==
    LET run == (Len(history) - n + 1)..Len(history)
        same == {r \in error_patterns : /\ r.project_id = last.project
                                        /\ r.error_message = last.params.error_message}
    IN  /\ Cardinality(same) = 1
        /\ \A r \in same :
             /\ r.occurrence_count = n
             /\ r.attempted_fixes = UNION {history[i].params.attempted_fixes : i \in run}

MaxCoalesceOps == 2

CoalesceParams ==
    [error_message : {TxtPool, TxtPunct}, attempted_fixes : {{}},
     root_cause : {NULL, TxtEmpty, TxtJwt}, resolution : {NULL, TxtEmpty, TxtJwt2},
     file_paths : {NULL}, tags : {{}}]

CoalesceLog ==
    /\ now < MaxCoalesceOps
    /\ \E p \in Projects, params \in CoalesceParams : logErrorPattern(p, params, pgTrgm)

NextCoalesce == CoalesceLog

SpecCoalesce == Init /\ [][NextCoalesce]_vars

\* this step serves a logErrorPattern call that merges into an existing pattern
ErrorMergeStep ==
    /\ Len(history') = Len(history) + 1
    /\ history'[Len(history')].op = "logErrorPattern"
    /\ history'[Len(history')].deduplicated

\* the merged pattern keeps root_cause (resolution) where the call has none or an
\* empty one, and a stored non-empty value does not become empty
ErrorMergeKeeps ==
    LET params == history'[Len(history')].params
        id == history'[Len(history')].id
    IN  \A old \in error_patterns : old.id = id =>
          \E new \in error_patterns' :
             /\ new.id = id
             /\ ~Truthy(params.root_cause) => SameValue(new.root_cause, old.root_cause)
             /\ ~Truthy(params.resolution) => SameValue(new.resolution, old.resolution)
             /\ Truthy(old.root_cause) => Truthy(new.root_cause)
             /\ Truthy(old.resolution) => Truthy(new.resolution)

\* the last two requests logged one message in one project: the first, with a root
\* cause only, inserted the pattern; the second, with a resolution only, merged
CauseThenResolution ==
    /\ Len(history) >= 2
    /\ LET a == history[Len(history) - 1]
           b == history[Len(history)]
       IN  /\ a.op = "logErrorPattern" /\ b.op = "logErrorPattern"
           /\ a.project = b.project
           /\ a.params.error_message = b.params.error_message
           /\ Truthy(a.params.root_cause) /\ ~Truthy(a.params.resolution)
           /\ ~Truthy(b.params.root_cause) /\ Truthy(b.params.resolution)
           /\ ~a.deduplicated /\ b.deduplicated

\* the pattern counts two occurrences and holds the root cause of the first call
\* and the resolution of the second
CauseAndResolutionKept ==
    LET a == history[Len(history) - 1]
        b == history[Len(history)]
    IN  /\ b.id = a.id
        /\ \E r \in error_patterns : /\ r.id = a.id
                                     /\ r.occurrence_count = 2
                                     /\ SameValue(r.root_cause, a.params.root_cause)
                                     /\ SameValue(r.resolution, b.params.resolution)

\* C3: when logErrorPattern merges into an existing pattern and the call omits
\* root_cause or resolution (or passes an empty string), the stored value is left
\* unchanged, and a stored non-empty value is never replaced by an empty one; logging
\* {root_cause: A} and then {resolution: B} for one message yields occurrence_count 2,
\* root_cause A and resolution B.
C3_CoalesceOnMerge ==
    /\ [][ErrorMergeStep => ErrorMergeKeeps]_vars
    /\ [](CauseThenResolution => CauseAndResolutionKept)

\* a merge without a root cause has met a stored one, and added its resolution
C3_Witness ==
    /\ CauseThenResolution /\ CauseAndResolutionKept
    /\ \E r \in error_patterns :
         r.id = last.id /\ SameValue(r.root_cause, TxtJwt)
                        /\ SameValue(r.resolution, TxtJwt2)

(***************************************************************************)
(* SpecSearch: notes are written, then the memory is searched.             *)
(***************************************************************************)
MaxSearchWrites == 2

SearchNoteParams ==
    [content : {TxtJwt, TxtPool, TxtPunct}, category : {NULL}, tags : {{}, {"auth"}},
     related_files : {{}}, snapshot_id : {NoRef}]

SearchParams ==
    [query : {TxtEmpty, TxtPool, TxtKey}, mode : {"semantic", "keyword", "hybrid"},
     limit : {1, 2}, content_type : {NULL}, tags : {{}, {"auth"}}]

SearchWrite ==
    /\ now < MaxSearchWrites
    /\ last.op # "retrieveMemory"
    /\ \E params \in SearchNoteParams : addNote("p1", params, pgTrgm)

SearchQuery ==
    /\ last.op # "retrieveMemory"
    /\ \E p \in Projects, params \in SearchParams : retrieveMemory(p, params)

NextSearch == SearchWrite \/ SearchQuery

SpecSearch == Init /\ [][NextSearch]_vars

\* the last request was a search for which embed returned no vectors
SearchedUnavailable == last.op = "retrieveMemory" /\ ~last.vectors

\* C4: whenever the Embedding Gateway is unavailable for the query, retrieveMemory
\* in hybrid mode returns exactly the results of the keyword sub-query, every item
\* tagged search_mode "keyword", and in semantic mode returns an empty list; in every
\* state where a search can start, the keyword sub-query has a result to return
\* (the search does not raise).
C4_DegradedSearch ==
    /\ SearchedUnavailable =>
         /\ last.params.mode = "hybrid" =>
              /\ last.results = last.keyword
              /\ \A i \in DOMAIN last.results : last.results[i].search_mode = "keyword"
         /\ last.params.mode = "semantic" => last.results = <<>>
    /\ last.op # "retrieveMemory" =>
         \A p \in Projects, params \in SearchParams :
            KeywordSubquery(p, params.query, params.content_type, params.tags,
                            params.limit) # {}

\* a hybrid search without vectors has returned the rows matching its keyword
C4_Witness ==
    /\ SearchedUnavailable
    /\ last.params.mode = "hybrid"
    /\ last.results # <<>>
    /\ \E e \in memory_embeddings : e.project_id = last.project /\ e.id \notin
          {last.results[i].id : i \in DOMAIN last.results}

\* the positions of s that hold the first occurrence of their record id
FirstOccurrences(s) == {i \in DOMAIN s : \A j \in 1..(i - 1) : s[j].id # s[i].id}

\* res is the first limit elements of s without the later occurrences of a record id
IsDedupPrefix(res, s, limit) ==
    LET keep == FirstOccurrences(s)
        n == Min(Cardinality(keep), limit)
    IN  /\ Len(res) = n
        /\ \A k \in 1..n :
             \E i \in keep : /\ Cardinality({j \in keep : j < i}) = k - 1
                             /\ res[k] = s[i]

\* C6: in hybrid mode the result of retrieveMemory is the first `limit` elements of
\* (semantic results followed by keyword results) after removing every later
\* occurrence of an already seen record id: no record id occurs twice, the length is
\* at most `limit`, and a record returned by both sub-queries appears exactly once,
\* at its semantic rank and with search_mode "semantic".
C6_HybridMerge ==
    (last.op = "retrieveMemory" /\ last.params.mode = "hybrid") =>
        LET res == last.results
            sem == last.semantic
            kw == last.keyword
        IN  /\ IsDedupPrefix(res, sem \o kw, last.params.limit)
            /\ \A i, j \in DOMAIN res : res[i].id = res[j].id => i = j
            /\ Len(res) <= last.params.limit
            /\ \A i \in DOMAIN sem :
                 (\E j \in DOMAIN kw : kw[j].id = sem[i].id) =>
                    /\ i \in DOMAIN res
                    /\ res[i] = sem[i]
                    /\ res[i].search_mode = "semantic"

\* a hybrid search whose two sub-queries returned the same two records, the keyword
\* sub-query ranking the nearest one last: four rows were merged into two
C6_Witness ==
    /\ last.op = "retrieveMemory" /\ last.params.mode = "hybrid"
    /\ Len(last.semantic) = 2 /\ Len(last.keyword) = 2
    /\ last.semantic[1].id = last.keyword[2].id
    /\ Len(last.results) = 2
    /\ last.results[1].search_mode = "semantic"

(***************************************************************************)
(* SpecDegraded: the five embedded writes, then a keyword or hybrid search.*)
(***************************************************************************)
MaxDegradedWrites == 2

DegradedNoteParams ==
    [content : {TxtPool}, category : {NULL}, tags : {{}}, related_files : {{}},
     snapshot_id : {NoRef}]

DegradedTodoParams ==
    [title : {TxtPool}, description : {NULL}, status : {NULL}, snapshot_id : {NoRef},
     tags : {{}}]

DegradedInstructionParams ==
    [content : {TxtPool}, category : {NULL}, priority : {0}, tags : {{}}]

DegradedErrorParams ==
    [error_message : {TxtPool}, attempted_fixes : {{}}, root_cause : {NULL},
     resolution : {NULL}, file_paths : {NULL}, tags : {{}}]

DegradedSnapshotParams ==
    [summary : {TxtPool}, architecture_notes : {NULL}, tags : {{}}, session_id : {NoRef}]

DegradedSearchParams ==
    [query : {TxtEmpty, TxtPool}, mode : {"keyword", "hybrid"}, limit : {1, 2, 3},
     content_type : {NULL}, tags : {{}}]

DegradedMayWrite == now < MaxDegradedWrites /\ last.op # "retrieveMemory"

DegradedNote ==
    /\ DegradedMayWrite
    /\ \E p \in Projects, params \in DegradedNoteParams : addNote(p, params, pgTrgm)

DegradedTodo ==
    /\ DegradedMayWrite
    /\ \E p \in Projects, params \in DegradedTodoParams : addTodo(p, params)

DegradedInstruction ==
    /\ DegradedMayWrite
    /\ \E p \in Projects, params \in DegradedInstructionParams :
         addInstruction(p, params, pgTrgm)

DegradedError ==
    /\ DegradedMayWrite
    /\ \E p \in Projects, params \in DegradedErrorParams :
         logErrorPattern(p, params, pgTrgm)

DegradedSnapshot ==
    /\ DegradedMayWrite
    /\ \E p \in Projects, params \in DegradedSnapshotParams : createSnapshot(p, params)

DegradedSearch ==
    /\ last.op # "retrieveMemory"
    /\ \E p \in Projects, params \in DegradedSearchParams : retrieveMemory(p, params)

NextDegraded ==
    \/ DegradedNote
    \/ DegradedTodo
    \/ DegradedInstruction
    \/ DegradedError
    \/ DegradedSnapshot
    \/ DegradedSearch

SpecDegraded == Init /\ [][NextDegraded]_vars

\* q occurs in t
IsSubstring(q, t) ==
    \E i \in 0..(Len(t) - Len(q)) : SubSeq(t, i + 1, i + Len(q)) = q

\* the text a write request carries into its embedded text
WrittenText(entry) ==
    CASE entry.op = "addNote" -> entry.params.content
      [] entry.op = "addTodo" -> entry.params.title
      [] entry.op = "addInstruction" -> entry.params.content
      [] entry.op = "logErrorPattern" -> entry.params.error_message
      [] entry.op = "createSnapshot" -> entry.params.summary

SourceTypeOf(entry) ==
    CASE entry.op = "addNote" -> "note"
      [] entry.op = "addTodo" -> "todo"
      [] entry.op = "addInstruction" -> "instruction"
      [] entry.op = "logErrorPattern" -> "error_pattern"
      [] entry.op = "createSnapshot" -> "snapshot"

\* the request inserted a new item while embed returned no vectors
WroteUnavailable(entry) ==
    /\ entry.op \in {"addNote", "addTodo", "addInstruction", "logErrorPattern",
                     "createSnapshot"}
    /\ ~entry.vectors
    /\ entry.op \in {"addNote", "addInstruction", "logErrorPattern"}
         => ~entry.deduplicated

\* C5: with the Embedding Gateway unavailable a write (addNote, addTodo,
\* addInstruction, logErrorPattern, createSnapshot) succeeds, and a following
\* retrieveMemory in keyword or hybrid mode in the same project, with a query that is
\* a substring of the written text (and a limit above the number of items of the
\* project), returns that item.
C5_DegradedWritesRetrievable ==
    (/\ Len(history) >= 2
     /\ WroteUnavailable(history[Len(history) - 1])
     /\ last.op = "retrieveMemory"
     /\ last.project = history[Len(history) - 1].project
     /\ IsSubstring(last.params.query, WrittenText(history[Len(history) - 1]))
     /\ last.params.limit > Cardinality(InProject(memory_embeddings, last.project)))
    => \E i \in DOMAIN last.results :
          /\ last.results[i].source_id = history[Len(history) - 1].id
          /\ last.results[i].source_type = SourceTypeOf(history[Len(history) - 1])

(***************************************************************************)
(* SpecCascade: notes and todos are written and deleted.                   *)
(***************************************************************************)
MaxCascadeOps == 3

CascadeNoteParams ==
    [content : {TxtPool}, category : {NULL}, tags : {{}}, related_files : {{}},
     snapshot_id : {NoRef}]

CascadeTodoParams ==
    [title : {TxtPool}, description : {NULL}, status : {NULL}, snapshot_id : {NoRef},
     tags : {{}}]

\* the ids a delete request may name: those of the stored items, and an unknown one
CascadeIds == {r.id : r \in notes} \cup {r.id : r \in todos} \cup {NoId}

CascadeNote ==
    /\ now < MaxCascadeOps
    /\ \E p \in Projects, params \in CascadeNoteParams : addNote(p, params, pgTrgm)

CascadeTodo ==
    /\ now < MaxCascadeOps
    /\ \E p \in Projects, params \in CascadeTodoParams : addTodo(p, params)

CascadeDeleteNote ==
    /\ now < MaxCascadeOps
    /\ \E p \in Projects, id \in CascadeIds : deleteNote(p, id)

CascadeDeleteTodo ==
    /\ now < MaxCascadeOps
    /\ \E p \in Projects, id \in CascadeIds : deleteTodo(p, id)

NextCascade == CascadeNote \/ CascadeTodo \/ CascadeDeleteNote \/ CascadeDeleteTodo

SpecCascade == Init /\ [][NextCascade]_vars

\* C9: after a completed deleteNote(p, id) or deleteTodo(p, id), neither the
\* structured record nor any EmbeddingRecord with that source kind and source id
\* exists in project p.
C9_DeleteCascades ==
    /\ last.op = "deleteNote" =>
         /\ ~\E r \in notes : r.id = last.id /\ r.project_id = last.project
         /\ ~\E e \in memory_embeddings : /\ e.source_type = "note"
                                          /\ e.source_id = last.id
                                          /\ e.project_id = last.project
    /\ last.op = "deleteTodo" =>
         /\ ~\E r \in todos : r.id = last.id /\ r.project_id = last.project
         /\ ~\E e \in memory_embeddings : /\ e.source_type = "todo"
                                          /\ e.source_id = last.id
                                          /\ e.project_id = last.project

\* a note that was stored with its embedding has been deleted, while another
\* embedding stays
C9_Witness ==
    /\ last.op = "deleteNote" /\ last.message = "Note deleted"
    /\ \E i \in 1..(Len(history) - 1) :
         /\ history[i].op = "addNote" /\ history[i].vectors
         /\ history[i].id = last.id /\ history[i].project = last.project
    /\ memory_embeddings # {}

(***************************************************************************)
(* SpecProject: projects are registered, filled and deleted.  A todo or a  *)
(* note may name any stored snapshot (the schema checks only that the      *)
(* snapshot exists).                                                       *)
(***************************************************************************)
MaxProjectWrites == 2

\* what a request may pass as snapshot_id: nothing, or the id of a stored snapshot
SnapshotRefs == {NoRef} \cup {{r.id} : r \in snapshots}

ProjectSnapshotParams ==
    [summary : {TxtPool}, architecture_notes : {NULL}, tags : {{}}, session_id : {NoRef}]

ProjectTodoParams ==
    [title : {TxtPool}, description : {NULL}, status : {NULL}, snapshot_id : SnapshotRefs,
     tags : {{}}]

ProjectNoteParams ==
    [content : {TxtPool}, category : {NULL}, tags : {{}}, related_files : {{}},
     snapshot_id : SnapshotRefs]

ProjectErrorParams ==
    [error_message : {TxtPool}, attempted_fixes : {{}}, root_cause : {NULL},
     resolution : {NULL}, file_paths : {NULL}, tags : {{}}]

ProjectInstructionParams ==
    [content : {TxtPool}, category : {NULL}, priority : {0}, tags : {{}}]

ProjectBriefParams == [project_name : {TxtPool}, tech_stack : {NULL}]

ProjectMayWrite == now < MaxProjectWrites

ProjectRegister ==
    /\ ProjectMayWrite
    /\ \E p \in Projects : registerProject(p, TxtPool)

ProjectSnapshot ==
    /\ ProjectMayWrite
    /\ \E p \in Projects, params \in ProjectSnapshotParams : createSnapshot(p, params)

ProjectTodo ==
    /\ ProjectMayWrite
    /\ \E p \in Projects, params \in ProjectTodoParams : addTodo(p, params)

ProjectNote ==
    /\ ProjectMayWrite
    /\ \E p \in Projects, params \in ProjectNoteParams : addNote(p, params, pgTrgm)

ProjectError ==
    /\ ProjectMayWrite
    /\ \E p \in Projects, params \in ProjectErrorParams :
         logErrorPattern(p, params, pgTrgm)

ProjectInstruction ==
    /\ ProjectMayWrite
    /\ \E p \in Projects, params \in ProjectInstructionParams :
         addInstruction(p, params, pgTrgm)

ProjectBrief ==
    /\ ProjectMayWrite
    /\ \E p \in Projects, params \in ProjectBriefParams : setProjectBrief(p, params)

ProjectDelete ==
    /\ now <= MaxProjectWrites
    /\ \E p \in Projects : deleteProject(p)

NextProject ==
    \/ ProjectRegister
    \/ ProjectSnapshot
    \/ ProjectTodo
    \/ ProjectNote
    \/ ProjectError
    \/ ProjectInstruction
    \/ ProjectBrief
    \/ ProjectDelete

SpecProject == Init /\ [][NextProject]_vars

\* this step serves a deleteProject call
ProjectDeleteStep ==
    /\ Len(history') = Len(history) + 1
    /\ history'[Len(history')].op = "deleteProject"

\* the rows of a table that belong to other projects than projectId
OthersOf(table, projectId) == {r \in table : r.project_id # projectId}

\* no row of project p is left
ProjectRowsGone(p) ==
    /\ InProject(memory_embeddings', p) = {}
    /\ InProject(todos', p) = {}
    /\ InProject(notes', p) = {}
    /\ InProject(error_patterns', p) = {}
    /\ InProject(instructions', p) = {}
    /\ InProject(project_brief', p) = {}
    /\ InProject(snapshots', p) = {}
    /\ InProject(sessions', p) = {}
    /\ ~\E r \in projects' : r.id = p

\* the returned counts are the numbers of rows the step removed
ProjectCountsExact(deleted) ==
    /\ deleted.memory_embeddings =
         Cardinality(memory_embeddings) - Cardinality(memory_embeddings')
    /\ deleted.todos = Cardinality(todos) - Cardinality(todos')
    /\ deleted.notes = Cardinality(notes) - Cardinality(notes')
    /\ deleted.error_patterns = Cardinality(error_patterns) - Cardinality(error_patterns')
    /\ deleted.instructions = Cardinality(instructions) - Cardinality(instructions')
    /\ deleted.project_brief = Cardinality(project_brief) - Cardinality(project_brief')
    /\ deleted.snapshots = Cardinality(snapshots) - Cardinality(snapshots')
    /\ deleted.sessions = Cardinality(sessions) - Cardinality(sessions')
    /\ deleted.projects = Cardinality(projects) - Cardinality(projects')

\* the rows of the other projects are as before the step
OtherProjectsUnchanged(p) ==
    /\ OthersOf(memory_embeddings', p) = OthersOf(memory_embeddings, p)
    /\ OthersOf(todos', p) = OthersOf(todos, p)
    /\ OthersOf(notes', p) = OthersOf(notes, p)
    /\ OthersOf(error_patterns', p) = OthersOf(error_patterns, p)
    /\ OthersOf(instructions', p) = OthersOf(instructions, p)
    /\ OthersOf(project_brief', p) = OthersOf(project_brief, p)
    /\ OthersOf(snapshots', p) = OthersOf(snapshots, p)
    /\ OthersOf(sessions', p) = OthersOf(sessions, p)
    /\ {r \in projects' : r.id # p} = {r \in projects : r.id # p}

\* C10: after a completed deleteProject(p), no embedding, todo, note, error pattern,
\* instruction, brief, snapshot, session or project row with project id p remains,
\* the returned counts equal the number of rows removed per table, and the rows of
\* every other project are unchanged.
C10_ProjectCascade ==
    [][ProjectDeleteStep =>
         /\ ProjectRowsGone(history'[Len(history')].project)
         /\ ProjectCountsExact(history'[Len(history')].deleted)
         /\ OtherProjectsUnchanged(history'[Len(history')].project)]_vars

\* a deleteProject step removes every row of its project and counts the rows removed
ProjectOwnRowsGoneAndCounted ==
    [][ProjectDeleteStep =>
         /\ ProjectRowsGone(history'[Len(history')].project)
         /\ ProjectCountsExact(history'[Len(history')].deleted)]_vars

(***************************************************************************)
(* SpecEmbed: calls of embed against every behaviour of the remote         *)
(* service.                                                                *)
(***************************************************************************)
MaxEmbedCalls == 2

\* texts.length of a call
EmbedLengths == {0, 1, 2}

EmbedCall ==
    /\ now < MaxEmbedCalls
    /\ \E n \in EmbedLengths, probe \in ProbeOutcomes, batch \in BatchOutcomes :
         LET r == embed(embeddingAvailable, n, probe, batch)
         IN  /\ embeddingAvailable' = r.flag
             /\ Served([op |-> "embed", n |-> n, probe |-> probe, batch |-> batch,
                        before |-> embeddingAvailable, vectors |-> r.vectors,
                        raised |-> r.raised, probed |-> r.probed,
                        batched |-> r.batched])
             /\ UNCHANGED <<tables, pgTrgm, nextId>>

NextEmbed == EmbedCall

SpecEmbed == Init /\ [][NextEmbed]_vars

\* C11: for every input and every behaviour of the remote service (the probe or the
\* batch call fails with a network error, times out, answers with a non-success
\* status or with an unparsable body), embed returns a list of vectors or null and
\* throws no exception; it returns vectors only when every call it made succeeded.
C11_EmbedNeverRaises ==
    last.op = "embed" =>
        /\ ~last.raised
        /\ last.vectors =>
             /\ last.probed => last.probe = "ok"
             /\ last.batched => last.batch = "ok"
        /\ (last.n > 0 /\ ~last.batched) => ~last.vectors

\* a batch call whose body did not parse has returned null, after a call that
\* returned vectors
C11_Witness ==
    /\ Len(history) >= 2
    /\ history[Len(history) - 1].op = "embed" /\ history[Len(history) - 1].vectors
    /\ history[Len(history) - 1].batched
    /\ last.op = "embed" /\ last.batched /\ last.batch = "badbody"
    /\ ~last.vectors /\ ~last.raised /\ embeddingAvailable = "false"

(***************************************************************************)
(* SpecFallback: deduplicating writes whose similarity query may fail.  A  *)
(* similarity query succeeds only with pg_trgm installed, and may fail     *)
(* even then.  Each behaviour writes to one of the three tables.           *)
(***************************************************************************)
MaxFallbackOps == 3

FallbackNoteParams ==
    [content : {TxtJwt, TxtJwt2}, category : {NULL, "decision"}, tags : {{}},
     related_files : {{}}, snapshot_id : {NoRef}]

FallbackInstructionParams ==
    [content : {TxtJwt, TxtJwt2}, category : {NULL}, priority : {0}, tags : {{}}]

FallbackErrorParams ==
    [error_message : {TxtJwt, TxtJwt2}, attempted_fixes : {{}}, root_cause : {NULL},
     resolution : {NULL}, file_paths : {NULL}, tags : {{}}]

\* whether the similarity query of a call succeeds
FuzzyOutcomes == {pgTrgm, FALSE}

FallbackNote ==
    /\ now < MaxFallbackOps
    /\ last.op \in {"init", "addNote"}
    /\ \E params \in FallbackNoteParams, trgm \in FuzzyOutcomes :
         addNote("p1", params, trgm)

FallbackInstruction ==
    /\ now < MaxFallbackOps
    /\ last.op \in {"init", "addInstruction", "removeInstruction"}
    /\ \E p \in Projects, params \in FallbackInstructionParams, trgm \in FuzzyOutcomes :
         addInstruction(p, params, trgm)

FallbackRemove ==
    /\ now < MaxFallbackOps
    /\ last.op \in {"addInstruction", "removeInstruction"}
    /\ \E p \in Projects, id \in {r.id : r \in instructions} : removeInstruction(p, id)

FallbackError ==
    /\ now < MaxFallbackOps
    /\ last.op \in {"init", "logErrorPattern"}
    /\ \E params \in FallbackErrorParams, trgm \in FuzzyOutcomes :
         logErrorPattern("p1", params, trgm)

NextFallback == FallbackNote \/ FallbackInstruction \/ FallbackRemove \/ FallbackError

SpecFallback == Init /\ [][NextFallback]_vars

\* this step serves a deduplicating write whose similarity query failed
FallbackStep ==
    /\ Len(history') = Len(history) + 1
    /\ history'[Len(history')].op \in {"addNote", "addInstruction", "logErrorPattern"}
    /\ ~history'[Len(history')].fuzzy

\* the ids of the records stored before the request that equal its text exactly,
\* in its project and with its discriminant (category; active)
ExactMatches(entry) ==
    CASE entry.op = "addNote" ->
           {r.id : r \in {x \in notes : /\ x.project_id = entry.project
                                         /\ x.category = entry.category
                                         /\ x.content = entry.params.content}}
      [] entry.op = "addInstruction" ->
           {r.id : r \in {x \in instructions : /\ x.project_id = entry.project
                                                /\ x.active
                                                /\ x.content = entry.params.content}}
      [] entry.op = "logErrorPattern" ->
           {r.id : r \in {x \in error_patterns :
                            /\ x.project_id = entry.project
                            /\ x.error_message = entry.params.error_message}}

\* the ids in the written table before and after the step
IdsBefore(entry) ==
    CASE entry.op = "addNote" -> {r.id : r \in notes}
      [] entry.op = "addInstruction" -> {r.id : r \in instructions}
      [] entry.op = "logErrorPattern" -> {r.id : r \in error_patterns}

IdsAfter(entry) ==
    CASE entry.op = "addNote" -> {r.id : r \in notes'}
      [] entry.op = "addInstruction" -> {r.id : r \in instructions'}
      [] entry.op = "logErrorPattern" -> {r.id : r \in error_patterns'}

\* the step merged into an exactly equal record: no record is added, the note is
\* refreshed, the error pattern counts one more occurrence
FallbackMerged(entry) ==
    /\ entry.deduplicated
    /\ entry.id \in ExactMatches(entry)
    /\ IdsAfter(entry) = IdsBefore(entry)
    /\ entry.op = "addNote" =>
         \E r \in notes' : r.id = entry.id /\ r.created_at = now'
                            /\ r.content = entry.params.content
    /\ entry.op = "logErrorPattern" =>
         \E old \in error_patterns, new \in error_patterns' :
            /\ old.id = entry.id /\ new.id = entry.id
            /\ new.occurrence_count = old.occurrence_count + 1

\* the step inserted a new record
FallbackInserted(entry) ==
    /\ ~entry.deduplicated
    /\ entry.id \notin IdsBefore(entry)
    /\ IdsAfter(entry) = IdsBefore(entry) \cup {entry.id}

\* C12: when the similarity query fails, the write (addNote, addInstruction,
\* logErrorPattern) completes by exact string equality within the same project and
\* discriminant: it merges when an exactly equal record exists and inserts a new
\* record otherwise.
C12_SimilarityFallback ==
    [][FallbackStep =>
         IF ExactMatches(history'[Len(history')]) # {}
         THEN FallbackMerged(history'[Len(history')])
         ELSE FallbackInserted(history'[Len(history')])]_vars

\* with pg_trgm installed a similarity query failed, and the note was inserted next
\* to a similar one of its category that is not equal to it
C12_Witness ==
    /\ pgTrgm
    /\ last.op = "addNote" /\ ~last.fuzzy /\ ~last.deduplicated
    /\ \E r \in notes : /\ r.id # last.id
                          /\ r.project_id = last.project /\ r.category = last.category
                          /\ SimilarityExceeds(r.content, last.params.content,
                                               NoteThreshold)

\* this step serves an addInstruction call
InstructionStep ==
    /\ Len(history') = Len(history) + 1
    /\ history'[Len(history')].op = "addInstruction"

\* the ids of the active instructions of the project, stored before the request,
\* that match its content: more than 0.8 similar, or equal when the similarity
\* query fails
InstructionMatches(entry) ==
    {r.id : r \in {x \in instructions :
                     /\ x.project_id = entry.project
                     /\ x.active
                     /\ IF entry.fuzzy
                        THEN SimilarityExceeds(x.content, entry.params.content,
                                               InstructionThreshold)
                        ELSE x.content = entry.params.content}}

\* C13: when addInstruction finds a matching active instruction it writes nothing:
\* the instructions table and the embeddings table are unchanged, the Embedding
\* Gateway is not called, and it returns the existing id with deduplicated = true.
C13_InstructionExistingWins ==
    [][(InstructionStep /\ InstructionMatches(history'[Len(history')]) # {}) =>
         /\ history'[Len(history')].deduplicated
         /\ history'[Len(history')].id \in InstructionMatches(history'[Len(history')])
         /\ instructions' = instructions
         /\ memory_embeddings' = memory_embeddings
         /\ ~history'[Len(history')].called
         /\ embeddingAvailable' = embeddingAvailable]_vars

\* a duplicate with another spelling was reported, and the stored instruction, with
\* its embedding, still has the first spelling
C13_Witness ==
    /\ last.op = "addInstruction" /\ last.deduplicated
    /\ \E r \in instructions :
         /\ r.id = last.id /\ r.content # last.params.content
         /\ \E e \in memory_embeddings : /\ e.source_type = "instruction"
                                          /\ e.source_id = r.id
                                          /\ e.content_text = r.content

\* the EmbeddingRecords of an error pattern
ErrorEmbeddings(id) ==
    {e \in memory_embeddings : e.source_type = "error_pattern" /\ e.source_id = id}

\* C14: after any sequence of logErrorPattern calls, with or without a resolution
\* and with the gateway available or unavailable at each call, every error pattern
\* has exactly one EmbeddingRecord with source kind 'error_pattern' and its id.
C14_OneEmbeddingPerErrorPattern ==
    \A r \in error_patterns : Cardinality(ErrorEmbeddings(r.id)) = 1

(***************************************************************************)
(* SpecEscape: a note is written, then the memory is searched by keyword,  *)
(* with texts and queries that hold %, _ and backslash.                    *)
(***************************************************************************)
MaxEscapeWrites == 1

EscapeTextChars == {"a", "B", "%", "_", BackSlash}
EscapeQueryChars == {"A", "b", "%", "_", BackSlash}

\* every text of one or two of the characters, and some of three
EscapeTexts ==
    {<<c>> : c \in EscapeTextChars}
    \cup {<<c, d>> : <<c, d>> \in EscapeTextChars \X EscapeTextChars}
    \cup {<<"a", c, "B">> : c \in EscapeTextChars}

\* every query of up to two of the characters, and some of three
EscapeQueries ==
    {<<>>}
    \cup {<<c>> : c \in EscapeQueryChars}
    \cup {<<c, d>> : <<c, d>> \in EscapeQueryChars \X EscapeQueryChars}
    \cup {<<"A", c, "b">> : c \in EscapeQueryChars}

EscapeNoteParams ==
    [content : EscapeTexts, category : {NULL}, tags : {{}},
     related_files : {{}}, snapshot_id : {NoRef}]

EscapeSearchParams ==
    [query : EscapeQueries, mode : {"keyword"}, limit : {2},
     content_type : {NULL}, tags : {{}}]

EscapeWrite ==
    /\ now < MaxEscapeWrites
    /\ last.op # "retrieveMemory"
    /\ \E params \in EscapeNoteParams : addNote("p1", params, pgTrgm)

EscapeSearch ==
    /\ last.op # "retrieveMemory"
    /\ \E params \in EscapeSearchParams : retrieveMemory("p1", params)

NextEscape == EscapeWrite \/ EscapeSearch

SpecEscape == Init /\ [][NextEscape]_vars

\* the text contains the query as a literal substring, ignoring case
ContainsIgnoringCase(text, query) == IsSubstring(LowerStr(query), LowerStr(text))

\* the EmbeddingRecords of the searched project whose text contains the query
LiteralMatches(entry) ==
    {e \in memory_embeddings : /\ e.project_id = entry.project
                               /\ ContainsIgnoringCase(e.content_text, entry.params.query)}

\* C15: for every query string, including ones with %, _ or backslash, the keyword
\* sub-query matches exactly the records whose text contains the query as a
\* case-insensitive literal substring: every returned record contains it, and
\* every record that contains it is returned (up to the limit).
C15_KeywordEscaping ==
    (last.op = "retrieveMemory" /\ last.params.mode = "keyword") =>
        /\ \A i \in DOMAIN last.keyword :
             \E e \in LiteralMatches(last) : e.id = last.keyword[i].id
        /\ Len(last.keyword) = Min(last.params.limit, Cardinality(LiteralMatches(last)))

\* a query of one special character was searched while a text without that
\* character was stored: nothing was returned
C15_Witness ==
    /\ last.op = "retrieveMemory"
    /\ last.params.query \in {<<"%">>, <<"_">>, <<BackSlash>>}
    /\ \E e \in memory_embeddings : e.project_id = last.project
    /\ last.keyword = <<>>

(***************************************************************************)
(* SpecFilter: notes of two categories, tagged or not, are written, then   *)
(* the memory is searched with content_type and tags filters.              *)
(***************************************************************************)
MaxFilterWrites == 2

FilterNoteParams ==
    [content : {TxtJwt, TxtPool}, category : {NULL, "decision"}, tags : {{}, {"auth"}},
     related_files : {{}}, snapshot_id : {NoRef}]

FilterSearchParams ==
    [query : {TxtKey}, mode : {"semantic", "keyword"}, limit : {1, 2},
     content_type : {NULL, "decision"}, tags : {{}, {"auth"}}]

FilterWrite ==
    /\ now < MaxFilterWrites
    /\ last.op # "retrieveMemory"
    /\ \E params \in FilterNoteParams : addNote("p1", params, pgTrgm)

FilterSearch ==
    /\ last.op # "retrieveMemory"
    /\ \E params \in FilterSearchParams : retrieveMemory("p1", params)

NextFilter == FilterWrite \/ FilterSearch

SpecFilter == Init /\ [][NextFilter]_vars

\* the EmbeddingRecords in the scope of the search that satisfy its filters
InScopeFiltered(entry) ==
    {e \in memory_embeddings :
       /\ e.project_id = entry.project
       /\ PassesFilters(e, entry.params.content_type, entry.params.tags)}

\* every item of the list satisfies the filters of the search
ItemsPassFilters(items, entry) ==
    \A i \in DOMAIN items :
        PassesFilters(items[i], entry.params.content_type, entry.params.tags)

\* C16: in both sub-queries of retrieveMemory the content_type and tags filters
\* are applied before ordering and before the limit: every returned item
\* satisfies the filters, and each sub-query returns min(limit, number of in-scope
\* records that satisfy the filters and the sub-query's match condition) items.
C16_FiltersBeforeLimit ==
    last.op = "retrieveMemory" =>
        /\ ItemsPassFilters(last.semantic, last)
        /\ ItemsPassFilters(last.keyword, last)
        /\ last.params.mode = "keyword" =>
             Len(last.keyword) =
               Min(last.params.limit,
                   Cardinality({e \in InScopeFiltered(last) :
                                  ContainsIgnoringCase(e.content_text, last.params.query)}))
        /\ (last.params.mode = "semantic" /\ last.vectors) =>
             Len(last.semantic) =
               Min(last.params.limit, Cardinality(InScopeFiltered(last)))

\* C17: retrieveMemory called with an empty query string returns no results in
\* semantic mode, and in hybrid mode contributes no item with search_mode
\* "semantic", whatever the Embedding Gateway answers for the empty string.
C17_EmptyQueryNoSemantic ==
    (last.op = "retrieveMemory" /\ last.params.query = TxtEmpty) =>
        /\ last.params.mode = "semantic" => last.results = <<>>
        /\ last.params.mode = "hybrid" =>
             \A i \in DOMAIN last.results : last.results[i].search_mode # "semantic"

(***************************************************************************)
(* SpecById: a note, a todo and an instruction are written, and the by-id  *)
(* operations are called with stored ids and with an unknown one, in the   *)
(* project of the item and in the other project.                           *)
(***************************************************************************)
MaxByIdOps == 3

ByIdNoteParams ==
    [content : {TxtPool}, category : {NULL}, tags : {{}}, related_files : {{}},
     snapshot_id : {NoRef}]

ByIdTodoParams ==
    [title : {TxtPool}, description : {NULL}, status : {NULL}, snapshot_id : {NoRef},
     tags : {{}}]

ByIdInstructionParams ==
    [content : {TxtJwt}, category : {NULL}, priority : {0}, tags : {{}}]

ByIdFields == [title : {NULL, TxtJwt}, status : {NULL, "blocked"}]

\* the ids a request may name: those of the stored items, and an unknown one
ByIdIds ==
    {r.id : r \in notes} \cup {r.id : r \in todos} \cup {r.id : r \in instructions}
    \cup {NoId}

ByIdNote ==
    /\ now < MaxByIdOps
    /\ \E params \in ByIdNoteParams : addNote("p1", params, pgTrgm)

ByIdTodo ==
    /\ now < MaxByIdOps
    /\ \E params \in ByIdTodoParams : addTodo("p1", params)

ByIdInstruction ==
    /\ now < MaxByIdOps
    /\ \E params \in ByIdInstructionParams : addInstruction("p1", params, pgTrgm)

ByIdDeleteNote ==
    /\ now < MaxByIdOps
    /\ \E p \in Projects, id \in ByIdIds : deleteNote(p, id)

ByIdDeleteTodo ==
    /\ now < MaxByIdOps
    /\ \E p \in Projects, id \in ByIdIds : deleteTodo(p, id)

ByIdUpdateTodo ==
    /\ now < MaxByIdOps
    /\ \E p \in Projects, id \in ByIdIds, fields \in ByIdFields : updateTodo(p, id, fields)

ByIdCompleteTodo ==
    /\ now < MaxByIdOps
    /\ \E p \in Projects, id \in ByIdIds : completeTodo(p, id)

ByIdRemoveInstruction ==
    /\ now < MaxByIdOps
    /\ \E p \in Projects, id \in ByIdIds : removeInstruction(p, id)

NextById ==
    \/ ByIdNote \/ ByIdTodo \/ ByIdInstruction
    \/ ByIdDeleteNote \/ ByIdDeleteTodo \/ ByIdUpdateTodo \/ ByIdCompleteTodo
    \/ ByIdRemoveInstruction

SpecById == Init /\ [][NextById]_vars

\* the table a by-id operation works on
ByIdTable(op) ==
    CASE op = "deleteNote" -> notes
      [] op \in {"deleteTodo", "updateTodo", "completeTodo"} -> todos
      [] op = "removeInstruction" -> instructions

ByIdOps == {"deleteNote", "deleteTodo", "updateTodo", "completeTodo", "removeInstruction"}

\* this step serves a by-id operation whose id names no row of its table in the
\* project of the request
NotFoundStep ==
    /\ Len(history') = Len(history) + 1
    /\ history'[Len(history')].op \in ByIdOps
    /\ ~\E r \in ByIdTable(history'[Len(history')].op) :
          /\ r.id = history'[Len(history')].id
          /\ r.project_id = history'[Len(history')].project

\* the messages by which the by-id operations report that they did their work
SuccessMessages ==
    {"Note deleted", "Todo deleted", "Todo updated", "Todo completed",
     "Instruction deactivated"}

\* C18: every by-id operation (deleteNote, deleteTodo, updateTodo, completeTodo,
\* removeInstruction) called with an id that does not exist in the project of the
\* request leaves the store unchanged and returns a result that reports not-found
\* instead of success.
C18_NotFoundExplicit ==
    [][NotFoundStep =>
         /\ tables' = tables
         /\ history'[Len(history')].message \notin SuccessMessages]_vars

\* the part of C18 that holds: the store is unchanged, and deleteNote reports
\* "Note not found"
NotFoundLeavesStore ==
    [][NotFoundStep =>
         /\ tables' = tables
         /\ history'[Len(history')].op = "deleteNote" =>
              history'[Len(history')].message = "Note not found"]_vars

(***************************************************************************)
(* SpecSingleton: notes, todos, instructions and error patterns are        *)
(* written, some of them again (merges).                                   *)
(***************************************************************************)
MaxSingletonOps == 3

SingletonNoteParams ==
    [content : {TxtJwt, TxtJwt2}, category : {NULL}, tags : {{}}, related_files : {{}},
     snapshot_id : {NoRef}]

SingletonTodoParams ==
    [title : {TxtJwt}, description : {NULL}, status : {NULL}, snapshot_id : {NoRef},
     tags : {{}}]

SingletonInstructionParams ==
    [content : {TxtJwt, TxtJwt2}, category : {NULL}, priority : {0}, tags : {{}}]

SingletonErrorParams ==
    [error_message : {TxtJwt}, attempted_fixes : {{}}, root_cause : {NULL},
     resolution : {NULL, TxtPool}, file_paths : {NULL}, tags : {{}}]

SingletonNote ==
    /\ now < MaxSingletonOps
    /\ \E params \in SingletonNoteParams : addNote("p1", params, pgTrgm)

SingletonTodo ==
    /\ now < MaxSingletonOps
    /\ \E params \in SingletonTodoParams : addTodo("p1", params)

SingletonInstruction ==
    /\ now < MaxSingletonOps
    /\ \E params \in SingletonInstructionParams : addInstruction("p1", params, pgTrgm)

SingletonError ==
    /\ now < MaxSingletonOps
    /\ \E params \in SingletonErrorParams : logErrorPattern("p1", params, pgTrgm)

NextSingleton == SingletonNote \/ SingletonTodo \/ SingletonInstruction \/ SingletonError

SpecSingleton == Init /\ [][NextSingleton]_vars

SingletonKinds == {"note", "todo", "instruction", "error_pattern"}

\* C19: in every state reachable by addNote, addTodo, addInstruction and
\* logErrorPattern calls (inserts and merges, gateway available or not), at most
\* one EmbeddingRecord exists per (source kind, source id) pair for notes, todos,
\* instructions and error patterns.
C19_SingletonEmbedding ==
    \A e1, e2 \in memory_embeddings :
        (/\ e1.source_type \in SingletonKinds
         /\ e1.source_type = e2.source_type
         /\ e1.source_id = e2.source_id) => e1 = e2

\* a note or an error pattern was written with an embedding and the last request
\* merged into it and rewrote the embedding: the item has one EmbeddingRecord,
\* written by the merge
C19_Witness ==
    /\ last.op \in {"addNote", "logErrorPattern"}
    /\ last.deduplicated /\ last.vectors
    /\ \E e \in memory_embeddings :
         /\ e.source_id = last.id
         /\ e.created_at = now
         /\ \A x \in memory_embeddings : x.source_id = last.id => x = e
    /\ \E i \in 1..(Len(history) - 1) :
         /\ history[i].op = last.op /\ history[i].id = last.id
         /\ ~history[i].deduplicated /\ history[i].vectors

(***************************************************************************)
(* SpecPrune: notes, tagged or not, are written in two projects, and the   *)
(* memory of a project is pruned.                                          *)
(***************************************************************************)
MaxPruneOps == 3

PruneNoteParams ==
    [content : {TxtJwt, TxtPool}, category : {NULL}, tags : {{}, {"keep"}},
     related_files : {{}}, snapshot_id : {NoRef}]

PruneDays == {0, 1}
PruneKeepTagged == {{}, {"keep"}}

PruneNote ==
    /\ now < MaxPruneOps
    /\ \E p \in Projects, params \in PruneNoteParams : addNote(p, params, pgTrgm)

PrunePrune ==
    /\ now < MaxPruneOps
    /\ \E p \in Projects, days \in PruneDays, keep \in PruneKeepTagged :
         pruneMemory(p, days, keep)

NextPrune == PruneNote \/ PrunePrune

SpecPrune == Init /\ [][NextPrune]_vars

\* this step serves a pruneMemory call
PruneStep ==
    /\ Len(history') = Len(history) + 1
    /\ history'[Len(history')].op = "pruneMemory"

\* at the time of the request the record is of the pruned project, older than the
\* given number of days, and carries none of the tags to keep
Prunable(e, entry) ==
    /\ e.project_id = entry.project
    /\ now' - e.created_at > entry.older_than_days
    /\ e.tags \cap entry.keep_tagged = {}

\* C20: pruneMemory(p, days, keepTagged) deletes exactly the embedding records of
\* project p that are older than days days and share no tag with keepTagged; every
\* other embedding record and every structured record is left unchanged, and the
\* returned count is the number of deleted records.
C20_PrunePreserves ==
    [][PruneStep =>
         /\ memory_embeddings' \subseteq memory_embeddings
         /\ \A e \in memory_embeddings :
              e \notin memory_embeddings' <=> Prunable(e, history'[Len(history')])
         /\ <<projects, sessions, snapshots, todos, notes, error_patterns,
              instructions, project_brief>>' =
            <<projects, sessions, snapshots, todos, notes, error_patterns,
              instructions, project_brief>>
         /\ history'[Len(history')].pruned =
              Cardinality(memory_embeddings) - Cardinality(memory_embeddings')]_vars

\* a prune deleted an old record and kept a record as old with a tag to keep, the
\* notes of both still stored
C20_Witness ==
    /\ last.op = "pruneMemory" /\ last.pruned = 1 /\ last.keep_tagged = {"keep"}
    /\ \E e \in memory_embeddings :
         /\ e.project_id = last.project
         /\ now - e.created_at > last.older_than_days
         /\ "keep" \in e.tags
    /\ Cardinality({r \in notes : r.project_id = last.project}) = 2

(***************************************************************************)
(* SpecScope: the same texts are written in two projects, a todo may refer *)
(* to a stored snapshot, and then one project searches, checks an error,   *)
(* works on an item by id, or is deleted.                                  *)
(***************************************************************************)
MaxScopeWrites == 2

ScopeNoteParams ==
    [content : {TxtJwt}, category : {NULL}, tags : {{}}, related_files : {{}},
     snapshot_id : {NoRef}]

ScopeInstructionParams ==
    [content : {TxtJwt}, category : {NULL}, priority : {0}, tags : {{}}]

ScopeErrorParams ==
    [error_message : {TxtJwt}, attempted_fixes : {{}}, root_cause : {NULL},
     resolution : {NULL}, file_paths : {NULL}, tags : {{}}]

ScopeTodoParams ==
    [title : {TxtJwt}, description : {NULL}, status : {NULL}, snapshot_id : SnapshotRefs,
     tags : {{}}]

ScopeSnapshotParams ==
    [summary : {TxtJwt}, architecture_notes : {NULL}, tags : {{}}, session_id : {NoRef}]

ScopeSearchParams ==
    [query : {TxtKey}, mode : {"hybrid"}, limit : {2}, content_type : {NULL}, tags : {{}}]

ScopeLastOps ==
    {"retrieveMemory", "checkErrorPatterns", "deleteNote", "deleteTodo", "updateTodo",
     "completeTodo", "deleteProject"}

ScopeMayWrite == now < MaxScopeWrites /\ last.op \notin ScopeLastOps
ScopeMayEnd == last.op \notin ScopeLastOps

\* the ids a by-id request may name: those of the stored notes and todos
ScopeIds == {r.id : r \in notes} \cup {r.id : r \in todos}

ScopeNote ==
    /\ ScopeMayWrite
    /\ \E p \in Projects, params \in ScopeNoteParams : addNote(p, params, pgTrgm)

ScopeInstruction ==
    /\ ScopeMayWrite
    /\ \E p \in Projects, params \in ScopeInstructionParams :
         addInstruction(p, params, pgTrgm)

ScopeError ==
    /\ ScopeMayWrite
    /\ \E p \in Projects, params \in ScopeErrorParams : logErrorPattern(p, params, pgTrgm)

ScopeTodo ==
    /\ ScopeMayWrite
    /\ \E params \in ScopeTodoParams : addTodo("p2", params)

ScopeSnapshot ==
    /\ ScopeMayWrite
    /\ \E params \in ScopeSnapshotParams : createSnapshot("p1", params)

ScopeSearch ==
    /\ ScopeMayEnd
    /\ \E p \in Projects, params \in ScopeSearchParams : retrieveMemory(p, params)

ScopeCheck ==
    /\ ScopeMayEnd
    /\ \E p \in Projects : checkErrorPatterns(p, TxtJwt, 2, pgTrgm)

ScopeDeleteNote ==
    /\ ScopeMayEnd
    /\ \E p \in Projects, id \in ScopeIds : deleteNote(p, id)

ScopeDeleteTodo ==
    /\ ScopeMayEnd
    /\ \E p \in Projects, id \in ScopeIds : deleteTodo(p, id)

ScopeUpdateTodo ==
    /\ ScopeMayEnd
    /\ \E p \in Projects, id \in ScopeIds :
         updateTodo(p, id, [title |-> TxtPool, status |-> "blocked"])

ScopeCompleteTodo ==
    /\ ScopeMayEnd
    /\ \E p \in Projects, id \in ScopeIds : completeTodo(p, id)

ScopeDeleteProject ==
    /\ ScopeMayEnd
    /\ \E p \in Projects : deleteProject(p)

NextScope ==
    \/ ScopeNote \/ ScopeInstruction \/ ScopeError \/ ScopeTodo \/ ScopeSnapshot
    \/ ScopeSearch \/ ScopeCheck
    \/ ScopeDeleteNote \/ ScopeDeleteTodo \/ ScopeUpdateTodo \/ ScopeCompleteTodo
    \/ ScopeDeleteProject

SpecScope == Init /\ [][NextScope]_vars

\* the table a deduplicating write looks into
DedupTable(op) ==
    CASE op = "addNote" -> notes
      [] op = "addInstruction" -> instructions
      [] op = "logErrorPattern" -> error_patterns

\* the step that served the request touched no record of another project: the rows
\* of other projects are as before, a dedup matched a record of the project, and a
\* search or an error check returned records of the project only
ScopeConfined(entry) ==
    /\ OtherProjectsUnchanged(entry.project)
    /\ (entry.op \in {"addNote", "addInstruction", "logErrorPattern"}
        /\ entry.deduplicated) =>
         \E r \in DedupTable(entry.op) : r.id = entry.id /\ r.project_id = entry.project
    /\ entry.op = "retrieveMemory" =>
         \A i \in DOMAIN entry.results :
            \E e \in memory_embeddings : /\ e.id = entry.results[i].id
                                         /\ e.project_id = entry.project
    /\ entry.op = "checkErrorPatterns" =>
         \A i \in DOMAIN entry.patterns : entry.patterns[i].project_id = entry.project

\* C21: no operation invoked with project scope p matches, returns, modifies or
\* deletes a record of a project different from p.
C21_ScopeConfinement ==
    [][Len(history') = Len(history) + 1 => ScopeConfined(history'[Len(history')])]_vars

\* the part of C21 that holds: every operation but deleteProject is confined to
\* its project
ScopeConfinedButDeleteProject ==
    [][(Len(history') = Len(history) + 1
        /\ history'[Len(history')].op # "deleteProject")
       => ScopeConfined(history'[Len(history')])]_vars

\* the transitions of the availability flag the specification lists:
\* unknown -> available, unknown -> unavailable, available -> unavailable,
\* unavailable -> available
FlagTransitions ==
    {<<"null", "true">>, <<"null", "false">>, <<"true", "false">>, <<"false", "true">>}

\* C24: whenever the flag is available and the batch request of an embed call
\* fails, by network error, by timeout or by a non-success response, the flag is
\* unavailable when the call returns; and the flag only takes the transitions
\* unknown -> available, unknown -> unavailable, available -> unavailable and
\* unavailable -> available.
C24_FlagFlipsOnFailure ==
    last.op = "embed" =>
        /\ (last.batched /\ last.batch \in {"throw", "timeout", "notok"}) =>
             embeddingAvailable = "false"
        /\ \/ embeddingAvailable = last.before
           \/ <<last.before, embeddingAvailable>> \in FlagTransitions

\* the part of C24 that holds: a network error, a timeout and an unparsable body
\* flip the flag, and the flag takes the listed transitions only
FlagFlipsOnException ==
    last.op = "embed" =>
        /\ (last.batched /\ last.batch \in {"throw", "timeout", "badbody"}) =>
             embeddingAvailable = "false"
        /\ \/ embeddingAvailable = last.before
           \/ <<last.before, embeddingAvailable>> \in FlagTransitions

\* C25: if the flag is unknown or unavailable when embed is called with a non-empty
\* list, a liveness probe is performed, and if that probe fails no batch request is
\* sent and the call returns no vectors; if the flag is available, embed sends the
\* batch request directly without a probe.
C25_ProbeBeforeAttempt ==
    (last.op = "embed" /\ last.n > 0) =>
        /\ last.before \in {"null", "false"} =>
             /\ last.probed
             /\ last.probe # "ok" => (~last.batched /\ ~last.vectors)
             /\ last.probe = "ok" => last.batched
        /\ last.before = "true" => (~last.probed /\ last.batched)

\* a call found the flag unknown, probed, the probe succeeded and the batch
\* request was sent; the next call found the flag unavailable, probed, the probe
\* failed, and no batch request was sent
C25_Witness ==
    /\ Len(history) >= 2
    /\ history[Len(history) - 1].op = "embed"
    /\ history[Len(history) - 1].before = "null"
    /\ history[Len(history) - 1].probed /\ history[Len(history) - 1].batched
    /\ last.op = "embed" /\ last.n > 0 /\ last.before = "false"
    /\ last.probed /\ last.probe # "ok" /\ ~last.batched /\ ~last.vectors

\* C26: from any flag state, when the remote service is healthy (the probe and the
\* batch request would both succeed), an embed call with a non-empty list returns
\* vectors and leaves the flag available, whatever failures came before.
C26_NotSticky ==
    (last.op = "embed" /\ last.n > 0 /\ last.probe = "ok" /\ last.batch = "ok") =>
        (last.vectors /\ embeddingAvailable = "true")

\* a call failed and left the flag unavailable, and the next call, with the
\* service healthy, probed, returned vectors and left the flag available
C26_Witness ==
    /\ Len(history) >= 2
    /\ history[Len(history) - 1].op = "embed"
    /\ history[Len(history) - 1].n > 0 /\ ~history[Len(history) - 1].vectors
    /\ last.op = "embed" /\ last.n > 0 /\ last.before = "false"
    /\ last.probed /\ last.probe = "ok" /\ last.batch = "ok"
    /\ last.vectors /\ embeddingAvailable = "true"

(***************************************************************************)
(* SpecResolver: deduplicating writes of texts that are similar in         *)
(* different degrees, in two projects and two note categories.  The        *)
(* embedding service is down throughout; each behaviour writes to one of   *)
(* the three tables.                                                       *)
(***************************************************************************)
MaxResolverOps == 3

\* trigram sets of 6, 7 and 8 elements, each containing the one before:
\* similarity 6/7 and 7/8 between neighbours, 6/8 between the outer two
TxtBbAa   == <<"b","b"," ","a","a">>                  \* "bb aa"
TxtBbbAa  == <<"b","b","b"," ","a","a">>              \* "bbb aa"
TxtBbbAaa == <<"b","b","b"," ","a","a","a">>          \* "bbb aaa"

ResolverTexts == {TxtBbAa, TxtBbbAa, TxtBbbAaa}

\* project and category of the notes written
ResolverScopes == {<<"p1", NULL>>, <<"p1", "decision">>, <<"p2", NULL>>}

ResolverNoteParams(category) ==
    [content : ResolverTexts, category : {category}, tags : {{}},
     related_files : {{}}, snapshot_id : {NoRef}]

ResolverInstructionParams ==
    [content : ResolverTexts, category : {NULL}, priority : {0}, tags : {{}}]

ResolverErrorParams ==
    [error_message : ResolverTexts, attempted_fixes : {{}}, root_cause : {NULL},
     resolution : {NULL}, file_paths : {NULL}, tags : {{}}]

\* the embedding service gives no vector and the flag does not become true
GatewayDown == embeddingAvailable' # "true"

ResolverNote ==
    /\ now < MaxResolverOps
    /\ last.op \in {"init", "addNote"}
    /\ \E scope \in ResolverScopes :
         \E params \in ResolverNoteParams(scope[2]) : addNote(scope[1], params, pgTrgm)
    /\ GatewayDown

ResolverInstruction ==
    /\ now < MaxResolverOps
    /\ last.op \in {"init", "addInstruction", "removeInstruction"}
    /\ \E p \in Projects, params \in ResolverInstructionParams :
         addInstruction(p, params, pgTrgm)
    /\ GatewayDown

ResolverRemove ==
    /\ now < MaxResolverOps
    /\ last.op \in {"addInstruction", "removeInstruction"}
    /\ \E p \in Projects, id \in {r.id : r \in instructions} : removeInstruction(p, id)

ResolverError ==
    /\ now < MaxResolverOps
    /\ last.op \in {"init", "logErrorPattern"}
    /\ \E p \in Projects, params \in ResolverErrorParams, trgm \in FuzzyOutcomes :
         logErrorPattern(p, params, trgm)
    /\ GatewayDown

NextResolver == ResolverNote \/ ResolverInstruction \/ ResolverRemove \/ ResolverError

SpecResolver == Init /\ [][NextResolver]_vars

\* this step serves a deduplicating write whose similarity query succeeded
ResolverStep ==
    /\ Len(history') = Len(history) + 1
    /\ history'[Len(history')].op \in {"addNote", "addInstruction", "logErrorPattern"}
    /\ history'[Len(history')].fuzzy

\* the records stored before the request in its project and with its
\* discriminant (category; active), as a function from id to text
ResolverScope(entry) ==
    CASE entry.op = "addNote" ->
           [id \in {r.id : r \in {x \in notes : /\ x.project_id = entry.project
                                                 /\ x.category = entry.category}}
              |-> (CHOOSE r \in notes : r.id = id).content]
      [] entry.op = "addInstruction" ->
           [id \in {r.id : r \in {x \in instructions : /\ x.project_id = entry.project
                                                        /\ x.active}}
              |-> (CHOOSE r \in instructions : r.id = id).content]
      [] entry.op = "logErrorPattern" ->
           [id \in {r.id : r \in {x \in error_patterns : x.project_id = entry.project}}
              |-> (CHOOSE r \in error_patterns : r.id = id).error_message]

\* the text of the request and the threshold of its kind, in tenths
ResolverText(entry) ==
    IF entry.op = "logErrorPattern" THEN entry.params.error_message
    ELSE entry.params.content

ResolverThreshold(entry) ==
    CASE entry.op = "addNote" -> 8
      [] entry.op = "addInstruction" -> 8
      [] entry.op = "logErrorPattern" -> 7

\* the ids of the records in scope whose similarity to the text of the request
\* is over the threshold
OverThreshold(entry) ==
    {id \in DOMAIN ResolverScope(entry) :
       SimilarityExceeds(ResolverScope(entry)[id], ResolverText(entry),
                         ResolverThreshold(entry))}

ResolutionMerged ==
    /\ last.op = "logErrorPattern" /\ last.deduplicated
    /\ Truthy(last.params.resolution) /\ last.vectors

\* C29: after a logErrorPattern merge that supplies a resolution, with the gateway
\* available, the embedding text of the pattern is derived from the error message
\* of the record, its current root cause and its current resolution; when the root
\* cause was logged first and the resolution second, the text contains both and no
\* placeholder for an unknown cause.
C29_MergedEmbeddingText ==
    ResolutionMerged =>
        \A r \in error_patterns : r.id = last.id =>
           \A e \in ErrorEmbeddings(r.id) :
              e.content_text = MergedErrorText([error_message |-> r.error_message,
                                                root_cause |-> r.root_cause,
                                                resolution |-> r.resolution])

\* the part of C29 that holds: the text is derived from the error message, the
\* root cause and the resolution of the call, so it describes the record when the
\* call names the root cause itself or the record has none
MergedEmbeddingTextOfCall ==
    ResolutionMerged =>
        \A r \in error_patterns : r.id = last.id =>
           \A e \in ErrorEmbeddings(r.id) :
              /\ e.content_text = MergedErrorText(last.params)
              /\ (Truthy(last.params.root_cause) \/ ~Truthy(r.root_cause)) =>
                   e.content_text = MergedErrorText([error_message |-> r.error_message,
                                                     root_cause |-> r.root_cause,
                                                     resolution |-> r.resolution])

(***************************************************************************)
(* SpecFlag: concurrent calls of embed and checkEmbeddingService on the    *)
(* shared flag, interleaved at every await.                                *)
(***************************************************************************)
MaxFlagCalls == 2

FlagEmbed ==
    /\ Len(inflight) < MaxFlagCalls
    /\ \E n \in {0, 1} : Arrive(Call("embed", "p1", NULL, "embed", n))

\* checkEmbeddingService sends GET /health as it is called
FlagCheck ==
    /\ Len(inflight) < MaxFlagCalls
    /\ Arrive([Call("checkEmbeddingService", "p1", NULL, "probe", 0)
                  EXCEPT !.probes = 1])

FlagEnter == \E i \in DOMAIN inflight : EmbedEnter(i)

FlagProbe == \E i \in DOMAIN inflight, probe \in ProbeOutcomes : ProbeSettles(i, probe)

FlagResume == \E i \in DOMAIN inflight : EmbedResumes(i)

FlagBatch == \E i \in DOMAIN inflight, batch \in BatchOutcomes : BatchSettles(i, batch)

NextFlag == FlagEmbed \/ FlagCheck \/ FlagEnter \/ FlagProbe \/ FlagResume \/ FlagBatch

SpecFlag == Init /\ [][NextFlag]_vars

\* C23: under every interleaving of concurrent embed and checkEmbeddingService
\* calls on the shared flag, an embed call returns vectors only if its own batch
\* request succeeded, each embed call performs at most one probe and at most one
\* batch attempt, and no call raises.
C23_FlagRaceBenign ==
    \A i \in DOMAIN inflight :
       LET c == inflight[i]
       IN  /\ (c.n > 0 /\ c.result = "vectors") => (c.batches = 1 /\ c.own = "ok")
           /\ c.probes <= 1 /\ c.batches <= 1
           /\ c.result # "thrown"
           /\ (c.pc = "done" /\ c.op = "embed") => c.result \in {"vectors", "null"}

\* a stale flag: a call sent its batch request while the flag was true, the
\* batch request of another call failed and set the flag to false, and the first
\* call then received its vectors and returned them
C23_Witness ==
    \E i, j \in DOMAIN inflight :
       /\ inflight[i].op = "embed" /\ inflight[i].pc = "done"
       /\ inflight[i].result = "vectors" /\ inflight[i].own = "ok"
       /\ inflight[j].op = "embed" /\ inflight[j].pc = "done"
       /\ inflight[j].own \in {"throw", "timeout"} /\ inflight[j].result = "null"
       /\ embeddingAvailable = "false"

(***************************************************************************)
(* SpecOrder: the seven write operations served statement by statement,    *)
(* one call after another, in project p1.                                  *)
(***************************************************************************)
MaxOrderCalls == 2

OrderNoteParams ==
    [content : {TxtJwt}, category : {NULL}, tags : {{}}, related_files : {{}},
     snapshot_id : {NoRef}]

OrderTodoParams ==
    [title : {TxtPool}, description : {NULL}, status : {NULL}, snapshot_id : {NoRef},
     tags : {{}}]

OrderInstructionParams ==
    [content : {TxtJwt}, category : {NULL}, priority : {0}, tags : {{}}]

OrderErrorParams ==
    [error_message : {TxtPool}, attempted_fixes : {{}}, root_cause : {NULL},
     resolution : {NULL, TxtJwt2}, file_paths : {NULL}, tags : {{}}]

OrderSnapshotParams ==
    [summary : {TxtPool}, architecture_notes : {NULL}, tags : {{}}, session_id : {NoRef}]

OrderBriefParams == [project_name : {TxtPool}, tech_stack : {NULL, TxtJwt}]

\* the calls that may arrive, each at its first statement
OrderCalls ==
    {Call("addNote", "p1", params, "find", 1) : params \in OrderNoteParams}
    \cup {Call("addTodo", "p1", params, "write", 1) : params \in OrderTodoParams}
    \cup {Call("addInstruction", "p1", params, "find", 1) :
             params \in OrderInstructionParams}
    \cup {Call("logErrorPattern", "p1", params, "find", 1) : params \in OrderErrorParams}
    \cup {Call("createSnapshot", "p1", params, "write", 1) :
             params \in OrderSnapshotParams}
    \cup {Call("setProjectBrief", "p1", params, "write", 1) : params \in OrderBriefParams}

\* a call arrives when the one before has returned
OrderArrive ==
    /\ Len(inflight) < MaxOrderCalls
    /\ \A i \in DOMAIN inflight : inflight[i].pc = "done"
    /\ \E c \in OrderCalls : Arrive(c)

OrderNote == \E i \in DOMAIN inflight : addNoteStep(i, pgTrgm)
OrderTodo == \E i \in DOMAIN inflight : addTodoStep(i)
OrderInstruction == \E i \in DOMAIN inflight : addInstructionStep(i, pgTrgm)
OrderError == \E i \in DOMAIN inflight : logErrorPatternStep(i, pgTrgm)
OrderSnapshot == \E i \in DOMAIN inflight : createSnapshotStep(i)
OrderBrief == \E i \in DOMAIN inflight : setProjectBriefStep(i)
OrderEnter == \E i \in DOMAIN inflight : EmbedEnter(i)
OrderProbe == \E i \in DOMAIN inflight, probe \in {"ok", "throw"} : ProbeSettles(i, probe)
OrderResume == \E i \in DOMAIN inflight : EmbedResumes(i)
OrderBatch ==
    \E i \in DOMAIN inflight, batch \in {"ok", "notok", "timeout"} : BatchSettles(i, batch)

NextOrder ==
    \/ OrderArrive \/ OrderNote \/ OrderTodo \/ OrderInstruction \/ OrderError
    \/ OrderSnapshot \/ OrderBrief \/ OrderEnter \/ OrderProbe \/ OrderResume
    \/ OrderBatch

SpecOrder == Init /\ [][NextOrder]_vars

\* the structured record of a write call is stored as the call wrote it
Stored(c) ==
    CASE c.op = "addNote" ->
           \E r \in notes : /\ r.id = c.id /\ r.project_id = c.project
                             /\ r.content = c.params.content /\ r.tags = c.params.tags
      [] c.op = "addTodo" ->
           \E r \in todos : /\ r.id = c.id /\ r.project_id = c.project
                             /\ r.title = c.params.title
      [] c.op = "addInstruction" ->
           \E r \in instructions : /\ r.id = c.id /\ r.project_id = c.project
                                    /\ r.content = c.params.content /\ r.active
      [] c.op = "logErrorPattern" ->
           \E r \in error_patterns :
              /\ r.id = c.id /\ r.project_id = c.project
              /\ IF c.deduplicated
                 THEN /\ r.occurrence_count >= 2
                      /\ Truthy(c.params.resolution) =>
                           SameValue(r.resolution, c.params.resolution)
                 ELSE r.error_message = c.params.error_message
      [] c.op = "createSnapshot" ->
           \E r \in snapshots : /\ r.id = c.id /\ r.project_id = c.project
                                 /\ SameValue(r.summary, c.params.summary)
      [] c.op = "setProjectBrief" ->
           \E r \in project_brief :
              /\ r.project_id = c.project
              /\ r.project_name = c.params.project_name
              /\ SameValue(r.tech_stack, OrNull(c.params.tech_stack))

\* no EmbeddingRecord holds the text of the call as of the time of the call (for
\* a merge: the one the record had is as it was)
NotIndexed(c) ==
    \A e \in memory_embeddings :
       (e.project_id = c.project /\ e.created_at >= now) =>
          ~(e.source_id = c.id \/ e.content_type = "brief")

\* embed has been called and has not returned
AtGateway(c) == c.pc \in {"embed", "probe", "probed", "batch"}

MaxBriefCalls == 2

BriefParams == [project_name : {TxtPool, TxtKey}, tech_stack : {NULL, TxtJwt}]

BriefArrive ==
    /\ Len(inflight) < MaxBriefCalls
    /\ \E params \in BriefParams : Arrive(Call("setProjectBrief", "p1", params, "write", 1))

BriefStatement == \E i \in DOMAIN inflight : setProjectBriefStep(i)
BriefEnter == \E i \in DOMAIN inflight : EmbedEnter(i)
BriefProbe == \E i \in DOMAIN inflight : ProbeSettles(i, "ok")
BriefResume == \E i \in DOMAIN inflight : EmbedResumes(i)
BriefBatch == \E i \in DOMAIN inflight : BatchSettles(i, "ok")

NextBrief ==
    \/ BriefArrive \/ BriefStatement \/ BriefEnter \/ BriefProbe \/ BriefResume
    \/ BriefBatch

SpecBrief == Init /\ [][NextBrief]_vars

\* every call that has arrived has returned, and there is one at least
BriefCallsReturned ==
    /\ inflight # <<>>
    /\ \A i \in DOMAIN inflight : inflight[i].pc = "done"

BriefEmbeddings(p) ==
    {e \in memory_embeddings : e.project_id = p /\ e.content_type = "brief"}

\* C30: after any interleaving of concurrent setProjectBrief calls for one project
\* with the gateway available, the project has exactly one project_brief row and at
\* most one embedding record with content type 'brief'.
C30_BriefSingleton ==
    BriefCallsReturned =>
        /\ Cardinality({r \in project_brief : r.project_id = "p1"}) = 1
        /\ Cardinality(BriefEmbeddings("p1")) <= 1

\* the part of C30 that holds: one project_brief row once a call has written,
\* in every state; and when the calls do not overlap, one brief embedding
BriefRowSingleton ==
    /\ (\E i \in DOMAIN inflight : inflight[i].pc # "write") =>
          Cardinality({r \in project_brief : r.project_id = "p1"}) = 1
    /\ (BriefCallsReturned /\ Len(inflight) = 1) =>
          Cardinality(BriefEmbeddings("p1")) = 1

(***************************************************************************)
(* SpecHang: writes and searches served statement by statement, one call   *)
(* after another, against an embedding service that answers a request or   *)
(* never does.  The steps of the server itself are fair: Node runs a       *)
(* continuation that is ready, PostgreSQL answers, and the timers of        *)
(* AbortSignal.timeout fire.  The answers of the embedding service and the *)
(* arrival of calls are not.                                               *)
(***************************************************************************)
MaxHangCalls == 2

HangNoteParams ==
    [content : {TxtJwt, TxtPool}, category : {NULL}, tags : {{}}, related_files : {{}},
     snapshot_id : {NoRef}]

HangSearchParams ==
    [query : {TxtKey}, mode : {"semantic", "hybrid"}, content_type : {NULL},
     tags : {{}}, limit : {2}]

HangCalls ==
    {Call("addNote", "p1", params, "find", 1) : params \in HangNoteParams}
    \cup {Call("retrieveMemory", "p1", params, "embed", 1) : params \in HangSearchParams}

HangArrive ==
    /\ Len(inflight) < MaxHangCalls
    /\ \A i \in DOMAIN inflight : inflight[i].pc = "done"
    /\ \E c \in HangCalls : Arrive(c)

HangNote == \E i \in DOMAIN inflight : addNoteStep(i, pgTrgm)
HangSearch == \E i \in DOMAIN inflight : retrieveMemoryStep(i)
HangEnter == \E i \in DOMAIN inflight : EmbedEnter(i)
HangResume == \E i \in DOMAIN inflight : EmbedResumes(i)
HangProbeAnswer == \E i \in DOMAIN inflight : ProbeSettles(i, "ok")
HangBatchAnswer == \E i \in DOMAIN inflight : BatchSettles(i, "ok")
HangProbeTimeout == \E i \in DOMAIN inflight : ProbeSettles(i, "timeout")
HangBatchTimeout == \E i \in DOMAIN inflight : BatchSettles(i, "timeout")

\* the steps the server takes by itself
HangServer ==
    \/ HangNote \/ HangSearch \/ HangEnter \/ HangResume
    \/ HangProbeTimeout \/ HangBatchTimeout

NextHang == HangArrive \/ HangProbeAnswer \/ HangBatchAnswer \/ HangServer

SpecHang == Init /\ [][NextHang]_vars /\ WF_vars(HangServer)

\* a request of the call to the embedding service was never answered
TimedOut(c) == c.probe = "timeout" \/ c.own = "timeout"

\* the latest call has returned after a timeout: embed gave no vectors; a write
\* has its note stored and has written no EmbeddingRecord; a search returns
\* keyword results only (the keyword sub-query in hybrid mode, nothing in
\* semantic mode)
DegradedCompletion ==
    \A i \in DOMAIN inflight :
       LET c == inflight[i]
       IN  (i = Len(inflight) /\ c.pc = "done" /\ TimedOut(c)) =>
             /\ c.result = "null"
             /\ c.op = "addNote" => (Stored(c) /\ NotIndexed(c))
             /\ c.op = "retrieveMemory" =>
                  /\ \A k \in DOMAIN c.results : c.results[k].search_mode = "keyword"
                  /\ c.params.mode = "semantic" => c.results = <<>>
                  /\ c.params.mode = "hybrid" =>
                       c.results \in KeywordSubquery(c.project, c.params.query,
                                                     c.params.content_type,
                                                     c.params.tags, c.params.limit)

\* every call that has arrived has returned (calls are served one after another,
\* so a call that never returns leaves this false for ever)
HangAllReturned == \A i \in DOMAIN inflight : inflight[i].pc = "done"

\* C22: under the timeouts of the probe and of the batch call every embed call
\* returns even if the embedding service never answers, so that every call that
\* has arrived eventually returns; and a call that met a timeout completes in
\* degraded mode: a write with its structured record persisted and no embedding, a
\* search with keyword-only results.
C22_HangCannotBlock ==
    /\ []<>HangAllReturned
    /\ []DegradedCompletion

\* a note was stored and embedded; the batch request of a hybrid search was
\* never answered, and the search has returned the note as a keyword result
C22_Witness ==
    /\ Len(inflight) = 2
    /\ \A i \in 1..2 : inflight[i].pc = "done"
    /\ inflight[1].op = "addNote" /\ inflight[1].result = "vectors"
    /\ inflight[2].op = "retrieveMemory" /\ inflight[2].params.mode = "hybrid"
    /\ inflight[2].own = "timeout" /\ inflight[2].result = "null"
    /\ Len(inflight[2].results) = 1
    /\ inflight[2].results[1].source_id = inflight[1].id
    /\ inflight[2].results[1].search_mode = "keyword"

(***************************************************************************)
(* The frame of a note merge (SpecNote).                                   *)
(***************************************************************************)
\* this step is an addNote call that merged into the note it matched
NoteMergeStep ==
    /\ Len(history') = Len(history) + 1
    /\ history'[Len(history')].op = "addNote"
    /\ history'[Len(history')].deduplicated

\* the fields of a note the merge is said to leave alone, tags among them
NoteFrame(r) ==
    <<r.id, r.project_id, r.category, r.related_files, r.snapshot_id, r.tags>>

\* the same without the tags
NoteFrameButTags(r) ==
    <<r.id, r.project_id, r.category, r.related_files, r.snapshot_id>>

\* the matched note after the step holds the content of the call and the time of
\* the call, and every other note is as it was
MergeWritesContentAndTime ==
    LET b == history'[Len(history')]
    IN  /\ {r.id : r \in notes'} = {r.id : r \in notes}
        /\ \A r \in notes : r.id # b.id => r \in notes'
        /\ \A r \in notes' : r.id = b.id =>
             r.content = b.params.content /\ r.created_at = now'

\* C31 (as claimed): a merging addNote overwrites the content of the matched note and
\* refreshes its timestamp; id, project, category, related_files, snapshot_id and tags
\* of the matched note keep their values, and no other note is modified.
C31_NoteMergeFrame ==
    [][NoteMergeStep =>
        /\ MergeWritesContentAndTime
        /\ \A r \in notes : \A r2 \in notes' :
             r2.id = r.id => NoteFrame(r2) = NoteFrame(r)]_vars

\* what the merge does keep: every field but content, created_at and tags
NoteMergeFrameButTags ==
    [][NoteMergeStep =>
        /\ MergeWritesContentAndTime
        /\ \A r \in notes : \A r2 \in notes' :
             r2.id = r.id => NoteFrameButTags(r2) = NoteFrameButTags(r)]_vars

\* a merge has replaced the tags of the matched note by those of the call
MergeReplacedTags ==
    /\ Len(history) >= 2
    /\ LET a == history[Len(history) - 1]
           b == history[Len(history)]
       IN  /\ a.op = "addNote" /\ ~a.deduplicated /\ a.params.tags = {"auth"}
           /\ b.op = "addNote" /\ b.deduplicated /\ b.id = a.id
           /\ b.params.tags = {}
           /\ \E r \in notes : r.id = a.id /\ r.tags = {}

(***************************************************************************)
(* SpecTodo: addTodo, updateTodo and completeTodo on the todos of one      *)
(* project.                                                                *)
(***************************************************************************)
MaxTodoOps == 3

TodoParams ==
    [title : {TxtPool}, description : {NULL, TxtKey}, status : {NULL, "done"},
     snapshot_id : {NoRef}, tags : {{}}]

TodoFields == [title : {NULL, TxtJwt}, status : {NULL, "todo", "done"}]

TodoAdd ==
    /\ now < MaxTodoOps
    /\ \E params \in TodoParams : addTodo("p1", params)

TodoUpdate ==
    /\ now < MaxTodoOps
    /\ \E id \in {r.id : r \in todos} \cup {NoId}, fields \in TodoFields :
         updateTodo("p1", id, fields)

TodoComplete ==
    /\ now < MaxTodoOps
    /\ \E id \in {r.id : r \in todos} \cup {NoId} : completeTodo("p1", id)

NextTodo == TodoAdd \/ TodoUpdate \/ TodoComplete

SpecTodo == Init /\ [][NextTodo]_vars

\* the text addTodo stores in the EmbeddingRecord of a todo with this title and
\* description, and the text it embeds
TodoContentText(r) == r.title \o <<":", " ">> \o OrEmpty(r.description)

TodoEmbeddedText(r) == TaskPrefix \o r.title \o <<".", " ">> \o OrEmpty(r.description)

\* C32: the EmbeddingRecord of a todo, if present, is derived from the todo's current
\* title and description (an updateTodo that changes them re-derives or deletes it).
C32_NoStaleTodoEmbedding ==
    \A e \in memory_embeddings : \A r \in todos :
        (e.source_type = "todo" /\ e.source_id = r.id)
        => /\ e.content_text = TodoContentText(r)
           /\ e.embedding = Vec(TodoEmbeddedText(r))

\* what does hold: the EmbeddingRecord of a todo describes the title and description
\* the todo was created with
TodoEmbeddingOfCreation ==
    \A e \in memory_embeddings :
        e.source_type = "todo" =>
            \E i \in 1..Len(history) :
                /\ history[i].op = "addTodo" /\ history[i].id = e.source_id
                /\ e.content_text = history[i].params.title \o <<":", " ">>
                                    \o OrEmpty(history[i].params.description)

\* an updateTodo has changed the title of a todo that has an EmbeddingRecord, and
\* the record still holds the old title
TodoRetitled ==
    /\ last.op = "updateTodo" /\ last.message = "Todo updated"
    /\ \E r \in todos : \E e \in memory_embeddings :
         /\ r.id = last.id /\ r.title = last.fields.title
         /\ e.source_type = "todo" /\ e.source_id = r.id
         /\ e.content_text # TodoContentText(r)

\* C37: a todo has status 'done' if and only if its completed_at is set.
C37_DoneIffCompletedAt ==
    \A r \in todos : (r.status = "done") <=> (r.completed_at # NoTime)

\* what does hold: completed_at is set by completeTodo only, and to the time of
\* the call
CompletedAtIsTimeOfCompleteTodo ==
    \A r \in todos : \A t \in r.completed_at :
        /\ t \in 1..Len(history)
        /\ history[t].op = "completeTodo" /\ history[t].id = r.id

(***************************************************************************)
(* SpecRace: addNote and logErrorPattern calls for project p1, statement   *)
(* by statement.  The first call is served alone, so that the calls after  *)
(* it may find a record to merge into; the calls after it run concurrently, *)
(* interleaved at every await.  The embedding service answers every request.*)
(***************************************************************************)
MaxRaceCalls == 2     \* concurrent calls after the first one

RaceNoteParams ==
    [content : {TxtJwt}, category : {NULL}, tags : {{}}, related_files : {{}},
     snapshot_id : {NoRef}]

RaceErrorParams ==
    [error_message : {TxtPool}, attempted_fixes : {{"f1"}, {"f2"}, {"f3"}},
     root_cause : {NULL}, resolution : {NULL}, file_paths : {NULL}, tags : {{}}]

RaceCalls ==
    {Call("addNote", "p1", params, "find", 1) : params \in RaceNoteParams}
    \cup {Call("logErrorPattern", "p1", params, "find", 1) : params \in RaceErrorParams}

RaceArrive ==
    /\ Len(inflight) < MaxRaceCalls + 1
    /\ inflight # <<>> => inflight[1].pc = "done"
    /\ \E c \in RaceCalls : Arrive(c)

RaceNote == \E i \in DOMAIN inflight : addNoteStep(i, pgTrgm)
RaceError == \E i \in DOMAIN inflight : logErrorPatternStep(i, pgTrgm)
RaceEnter == \E i \in DOMAIN inflight : EmbedEnter(i)
RaceProbe == \E i \in DOMAIN inflight : ProbeSettles(i, "ok")
RaceResume == \E i \in DOMAIN inflight : EmbedResumes(i)
RaceBatch == \E i \in DOMAIN inflight : BatchSettles(i, "ok")

NextRace ==
    \/ RaceArrive \/ RaceNote \/ RaceError \/ RaceEnter \/ RaceProbe \/ RaceResume
    \/ RaceBatch

SpecRace == Init /\ [][NextRace]_vars

\* three calls have arrived and all have returned
RaceAllReturned ==
    /\ Len(inflight) = 3
    /\ \A i \in DOMAIN inflight : inflight[i].pc = "done"

\* the two calls after the first are calls of this operation (with equal content or
\* message: each operation has one in this specification)
RacePair(op) == RaceAllReturned /\ inflight[2].op = op /\ inflight[3].op = op

\* the occurrence_count a merging logErrorPattern call returns:
\* existing.occurrence_count + 1, of the row it read
ReturnedCount(c) == (CHOOSE x \in c.found : TRUE).occurrence_count + 1

\* C33: two concurrent addNote calls with the same content, project and category, no
\* similar note existing before, leave exactly one note and return the same id; two
\* concurrent logErrorPattern calls with the same message, no similar pattern existing
\* before, leave exactly one error pattern, with occurrence_count 2.
C33_DedupUnderConcurrency ==
    /\ (RacePair("addNote") /\ inflight[1].op = "logErrorPattern")
       => /\ Cardinality(notes) = 1
          /\ inflight[2].id = inflight[3].id
    /\ (RacePair("logErrorPattern") /\ inflight[1].op = "addNote")
       => /\ Cardinality(error_patterns) = 1
          /\ \A r \in error_patterns : r.occurrence_count = 2

\* what does hold: when one of the two calls found the note of the other, there is
\* one note and both return its id
DedupWhenOneMerged ==
    (/\ RacePair("addNote") /\ inflight[1].op = "logErrorPattern"
     /\ (inflight[2].deduplicated \/ inflight[3].deduplicated))
    => /\ Cardinality(notes) = 1
       /\ inflight[2].id = inflight[3].id

\* both calls of a pair of equal addNote calls inserted a note
C33_BothInserted ==
    /\ RacePair("addNote") /\ inflight[1].op = "logErrorPattern"
    /\ ~inflight[2].deduplicated /\ ~inflight[3].deduplicated
    /\ Cardinality(notes) = 2

\* the first call stored a pattern and the two calls after it merged into it
RaceMergedPair ==
    /\ RacePair("logErrorPattern") /\ inflight[1].op = "logErrorPattern"
    /\ inflight[2].deduplicated /\ inflight[3].deduplicated

\* C34 (attempted fixes and returned counts): when concurrent logErrorPattern calls
\* all merge into the same existing pattern, the stored attempted_fixes are the union
\* of the previous fixes and the fixes of all the calls, the stored occurrence_count
\* has grown by the number of calls, and the occurrence_count values returned to the
\* callers are pairwise distinct.
C34_NoLostUpdate ==
    RaceMergedPair =>
        \A r \in error_patterns :
            /\ r.attempted_fixes = inflight[1].params.attempted_fixes
                                   \cup inflight[2].params.attempted_fixes
                                   \cup inflight[3].params.attempted_fixes
            /\ r.occurrence_count = 1 + 2
            /\ ReturnedCount(inflight[2]) # ReturnedCount(inflight[3])

\* what does hold: the stored occurrence_count has grown by the number of calls
OccurrenceCountGrows ==
    RaceMergedPair => \A r \in error_patterns : r.occurrence_count = 1 + 2

\* two merges read the pattern before either wrote: a fix is lost and both calls
\* return the same count
C34_LostFix ==
    /\ RaceMergedPair
    /\ ReturnedCount(inflight[2]) = 2 /\ ReturnedCount(inflight[3]) = 2
    /\ \E r \in error_patterns :
         /\ r.occurrence_count = 3
         /\ inflight[2].params.attempted_fixes \ r.attempted_fixes # {}

(***************************************************************************)
(* SpecDelete: writes and deletes of project p1, statement by statement.   *)
(* The first call is served alone; the calls after it run concurrently,    *)
(* interleaved at every await.  A delete names a stored note or todo.  The *)
(* embedding service answers every request.                                *)
(***************************************************************************)
MaxDeleteCalls == 2     \* concurrent calls after the first one

DeleteNoteParams ==
    [content : {TxtJwt}, category : {NULL}, tags : {{}}, related_files : {{}},
     snapshot_id : {NoRef}]

DeleteTodoParams ==
    [title : {TxtPool}, description : {NULL}, status : {NULL}, snapshot_id : {NoRef},
     tags : {{}}]

DeleteErrorParams ==
    [error_message : {TxtPool}, attempted_fixes : {{}}, root_cause : {NULL},
     resolution : {NULL}, file_paths : {NULL}, tags : {{}}]

DeleteCalls ==
    {Call("addNote", "p1", params, "find", 1) : params \in DeleteNoteParams}
    \cup {Call("addTodo", "p1", params, "write", 1) : params \in DeleteTodoParams}
    \cup {Call("logErrorPattern", "p1", params, "find", 1) : params \in DeleteErrorParams}
    \cup {Call("deleteNote", "p1", [id |-> r.id], "embeddings", 0) : r \in notes}
    \cup {Call("deleteTodo", "p1", [id |-> r.id], "embeddings", 0) : r \in todos}
    \cup {Call("deleteProject", "p1", [id |-> NoId], DeleteOrder[1], 0)}

DeleteArrive ==
    /\ Len(inflight) < MaxDeleteCalls + 1
    /\ inflight # <<>> => inflight[1].pc = "done"
    /\ \E c \in DeleteCalls : Arrive(c)

DeleteAddNote == \E i \in DOMAIN inflight : addNoteStep(i, pgTrgm)
DeleteAddTodo == \E i \in DOMAIN inflight : addTodoStep(i)
DeleteLogError == \E i \in DOMAIN inflight : logErrorPatternStep(i, pgTrgm)
DeleteNote == \E i \in DOMAIN inflight : deleteNoteStep(i)
DeleteTodo == \E i \in DOMAIN inflight : deleteTodoStep(i)
DeleteProject == \E i \in DOMAIN inflight : deleteProjectStep(i)
DeleteEnter == \E i \in DOMAIN inflight : EmbedEnter(i)
DeleteProbe == \E i \in DOMAIN inflight : ProbeSettles(i, "ok")
DeleteResume == \E i \in DOMAIN inflight : EmbedResumes(i)
DeleteBatch == \E i \in DOMAIN inflight : BatchSettles(i, "ok")

NextDelete ==
    \/ DeleteArrive \/ DeleteAddNote \/ DeleteAddTodo \/ DeleteLogError \/ DeleteNote
    \/ DeleteTodo \/ DeleteProject \/ DeleteEnter \/ DeleteProbe \/ DeleteResume
    \/ DeleteBatch

SpecDelete == Init /\ [][NextDelete]_vars

DeleteAllReturned ==
    /\ inflight # <<>>
    /\ \A i \in DOMAIN inflight : inflight[i].pc = "done"

\* the EmbeddingRecords of notes and todos whose note or todo is not stored
OrphanEmbeddings ==
    {e \in memory_embeddings :
       \/ /\ e.source_type = "note"
          /\ ~\E r \in notes : r.id = e.source_id /\ r.project_id = e.project_id
       \/ /\ e.source_type = "todo"
          /\ ~\E r \in todos : r.id = e.source_id /\ r.project_id = e.project_id}

\* C35: once all calls of an interleaving of addNote, addTodo, deleteNote, deleteTodo
\* and deleteProject have completed, every EmbeddingRecord with source kind 'note' or
\* 'todo' refers to an existing note or todo of the same project.
C35_NoOrphanEmbeddings == DeleteAllReturned => OrphanEmbeddings = {}

\* what does hold: an orphan is the EmbeddingRecord of a call that inserted its
\* record before a delete removed it and indexed it afterwards
OrphanIsOfOvertakenCall ==
    \A e \in OrphanEmbeddings :
        \E i \in DOMAIN inflight :
            /\ inflight[i].op \in {"addNote", "addTodo"}
            /\ inflight[i].id = e.source_id /\ inflight[i].pc = "done"
            /\ \E j \in DOMAIN inflight :
                 inflight[j].op \in {"deleteNote", "deleteTodo", "deleteProject"}

\* an addNote and a deleteNote of its note have both returned and the embedding of
\* the deleted note is stored
C35_OrphanAfterDeleteNote ==
    /\ DeleteAllReturned /\ Len(inflight) = 3
    /\ inflight[2].op = "addNote" /\ inflight[3].op = "deleteNote"
    /\ inflight[3].result = "Note deleted"
    /\ notes = {}
    /\ \E e \in memory_embeddings : e.source_type = "note" /\ e.source_id = inflight[2].id

\* call i returns in this step
Returns(i) ==
    /\ i \in DOMAIN inflight
    /\ inflight[i].pc # "done" /\ inflight'[i].pc = "done"

\* C36: whenever addNote or logErrorPattern returns an id, a record with that id
\* holding the written content exists in the store at the moment the call returns,
\* under every interleaving with concurrent deleteNote or deleteProject calls.
C36_ReportedWritePersisted ==
    [][\A i \in DOMAIN inflight :
         /\ (Returns(i) /\ inflight[i].op = "addNote")
            => \E r \in notes' : /\ r.id = inflight'[i].id
                                 /\ r.content = inflight[i].params.content
         /\ (Returns(i) /\ inflight[i].op = "logErrorPattern")
            => \E r \in error_patterns' : r.id = inflight'[i].id]_vars

\* what does hold: the record is stored when the write statement of an inserting
\* call has run
StoredAfterInsert ==
    [][\A i \in DOMAIN inflight :
         (/\ inflight[i].op \in {"addNote", "logErrorPattern"}
          /\ inflight[i].pc = "write" /\ inflight[i].found = {}
          /\ inflight'[i].pc # "write")
         => \E r \in notes' \cup error_patterns' : r.id = inflight'[i].id]_vars

\* an addNote that merged has returned the id of a note that a deleteNote had
\* removed before the merge's UPDATE ran
C36_MergeIntoDeleted ==
    /\ Len(inflight) = 3 /\ DeleteAllReturned
    /\ inflight[1].op = "addNote" /\ inflight[2].op = "addNote"
    /\ inflight[2].deduplicated /\ inflight[2].id = inflight[1].id
    /\ inflight[3].op = "deleteNote" /\ inflight[3].result = "Note deleted"
    /\ notes = {}

(***************************************************************************)
(* SpecCheck: error patterns are logged for project p1 and looked up by    *)
(* checkErrorPatterns with limit CheckLimit.                               *)
(***************************************************************************)
MaxCheckOps == 4

CheckLimit == 2

CheckErrorParams ==
    [error_message : {TxtJwt, TxtPool, TxtPunct}, attempted_fixes : {{}},
     root_cause : {NULL}, resolution : {NULL}, file_paths : {NULL}, tags : {{}}]

CheckLog ==
    /\ now < MaxCheckOps
    /\ \E params \in CheckErrorParams : logErrorPattern("p1", params, pgTrgm)

CheckPatterns ==
    /\ now < MaxCheckOps
    /\ checkErrorPatterns("p1", TxtKey, CheckLimit, pgTrgm)

NextCheck == CheckLog \/ CheckPatterns

SpecCheck == Init /\ [][NextCheck]_vars

\* the list has at most `limit` entries, no pattern id twice, and no text or keyword
\* match after a semantic match
PatternsShape(entry) ==
    LET ps == entry.patterns
    IN  /\ Len(ps) <= entry.limit
        /\ \A i \in DOMAIN ps : \A j \in DOMAIN ps : i # j => ps[i].id # ps[j].id
        /\ \A i \in DOMAIN ps : \A j \in DOMAIN ps :
             (i < j /\ ps[i].match_type = "semantic") => ps[j].match_type = "semantic"

\* C38: the patterns list returned by checkErrorPatterns has at most `limit` entries,
\* contains no error pattern id twice, lists text (or keyword-fallback) matches before
\* semantic matches, and the number stated in the message equals the number of
\* patterns returned.
C38_CheckResultShape ==
    \A i \in DOMAIN history :
        history[i].op = "checkErrorPatterns"
        => /\ PatternsShape(history[i])
           /\ history[i].found = Len(history[i].patterns)

\* what does hold: the shape of the list; the message counts the matches before the
\* list is cut to `limit`
PatternsShapeHolds ==
    \A i \in DOMAIN history :
        history[i].op = "checkErrorPatterns"
        => /\ PatternsShape(history[i])
           /\ history[i].found >= Len(history[i].patterns)
           /\ history[i].found < 2 * history[i].limit

\* one text match and two semantic matches for limit 2: the message says 3 and the
\* list holds 2
MessageCountsUncut ==
    /\ last.op = "checkErrorPatterns"
    /\ last.found = 3 /\ Len(last.patterns) = 2
    /\ last.patterns[1].match_type \in {"text", "keyword"}
    /\ last.patterns[2].match_type = "semantic"

(***************************************************************************)
(* SpecRemove: instructions of project p1 are added, removed and searched. *)
(***************************************************************************)
MaxRemoveOps == 4

RemoveInstructionParams ==
    [content : {TxtJwt}, category : {NULL}, priority : {0}, tags : {{}}]

RemoveSearchParams ==
    [query : {TxtKey}, mode : {"semantic", "keyword", "hybrid"}, limit : {2},
     content_type : {NULL}, tags : {{}}]

RemoveAdd ==
    /\ now < MaxRemoveOps
    /\ \E params \in RemoveInstructionParams : addInstruction("p1", params, pgTrgm)

RemoveRemove ==
    /\ now < MaxRemoveOps
    /\ \E id \in {r.id : r \in instructions} \cup {NoId} : removeInstruction("p1", id)

RemoveSearch ==
    /\ now < MaxRemoveOps
    /\ \E params \in RemoveSearchParams : retrieveMemory("p1", params)

NextRemove == RemoveAdd \/ RemoveRemove \/ RemoveSearch

SpecRemove == Init /\ [][NextRemove]_vars

\* the instructions that have been deactivated
Deactivated == {r \in instructions : ~r.active}

\* the request just served does not return a deactivated instruction, neither in the
\* list of active instructions nor in a search result
NotReturned ==
    /\ Deactivated \cap getInstructions("p1") = {}
    /\ last.op = "retrieveMemory"
       => \A i \in DOMAIN last.results :
            ~(/\ last.results[i].source_type = "instruction"
              /\ last.results[i].source_id \in {r.id : r \in Deactivated})

\* an addInstruction whose content equals that of a deactivated instruction, no
\* instruction that was active before the call being similar to it, inserts a new
\* active instruction
ReAddInserts ==
    (/\ last.op = "addInstruction"
     /\ \E r \in Deactivated : r.content = last.params.content
     /\ ~\E r \in getInstructions("p1") :
           r.created_at < now /\ SimilarNoteText(r.content, last.params.content))
    => /\ ~last.deduplicated
       /\ \E r \in getInstructions("p1") :
            r.id = last.id /\ r.created_at = now /\ r.content = last.params.content

\* C39: after removeInstruction(p, id) the instruction is returned neither by
\* getInstructions nor by sessionSync nor by retrieveMemory in any mode, and a later
\* addInstruction with the same content inserts a new active instruction.
C39_RemovedNotRetrievable == NotReturned /\ ReAddInserts

\* what does hold: the lists of active instructions leave out a removed instruction,
\* and it no longer counts as a duplicate
RemovedNotListed ==
    /\ Deactivated \cap getInstructions("p1") = {}
    /\ last.op = "removeInstruction" => last.id \notin {r.id : r \in getInstructions("p1")}
    /\ ReAddInserts

\* a search has returned the EmbeddingRecord of a deactivated instruction
RemovedStillFound ==
    /\ last.op = "retrieveMemory"
    /\ \E i \in DOMAIN last.results :
         /\ last.results[i].source_type = "instruction"
         /\ last.results[i].source_id \in {r.id : r \in Deactivated}
         /\ last.results[i].search_mode = "keyword"

\* a removed instruction has been added again as a new record
ReAdded ==
    /\ last.op = "addInstruction" /\ ~last.deduplicated
    /\ \E r \in Deactivated : r.content = last.params.content

(***************************************************************************)
(* The tags of a note and of its EmbeddingRecord (SpecSearch).             *)
(***************************************************************************)
\* the note an EmbeddingRecord or a result item refers to, as a set
NoteOf(e) == {r \in notes : e.source_type = "note" /\ r.id = e.source_id}

\* C40: the tags of a note's EmbeddingRecord equal the note's current tags, and a
\* tag-filtered retrieveMemory returns the embedding of a note only when the note
\* carries one of the requested tags.
C40_EmbeddingTagsFollowNote ==
    /\ \A e \in memory_embeddings : \A r \in NoteOf(e) : e.tags = r.tags
    /\ (last.op = "retrieveMemory" /\ last.params.tags # {})
       => \A i \in DOMAIN last.results : \A r \in NoteOf(last.results[i]) :
            r.tags \cap last.params.tags # {}

\* what does hold: the tags of a note's EmbeddingRecord are those of the call that
\* inserted the note
EmbeddingTagsOfInsert ==
    \A e \in memory_embeddings :
        e.source_type = "note" =>
            \E i \in DOMAIN history :
                /\ history[i].op = "addNote" /\ ~history[i].deduplicated
                /\ history[i].id = e.source_id
                /\ e.tags = history[i].params.tags

\* a search for a tag has returned a note that a merge left without that tag
StaleTagFound ==
    /\ last.op = "retrieveMemory" /\ last.params.tags = {"auth"}
    /\ \E i \in DOMAIN last.results : \E r \in NoteOf(last.results[i]) :
         r.tags = {} /\ last.results[i].tags = {"auth"}

=============================================================================
